---------------------------- MODULE Spec2Model ----------------------------
(* LatexClip: the two pure string functions of latexclip.py,               *)
(* latex_to_plaintext and sanitize_for_mathtext, as a state machine whose   *)
(* steps are the stages of each function.  A string is a sequence of       *)
(* one-character strings; a character outside ASCII is one element named    *)
(* by its code point ("U+2016").  Positions count from 1.                   *)
EXTENDS Integers, Sequences, FiniteSets, TLC

VARIABLES
    fn,            \* the function called
    input,         \* its argument s
    out,           \* the string being rewritten: the local `out` of
                   \* latex_to_plaintext, the local `text` of sanitize_for_mathtext
    already_math,  \* the local flag of sanitize_for_mathtext
    pc             \* the statement to run next, "done" after the return

vars == <<fn, input, out, already_math, pc>>

(* ------------------------------------------------------------------ *)
(* Python string and regex primitives                                 *)
(* ------------------------------------------------------------------ *)

BS == "\\"

\* the characters str.isspace and the regex class \s accept
WhiteSpace == {" ", "\t", "\n", "\r", "\f"}

isspace(c) == c \in WhiteSpace

Lower == {"a", "b", "c", "d", "e", "f", "g", "h", "i", "j", "k", "l", "m",
          "n", "o", "p", "q", "r", "s", "t", "u", "v", "w", "x", "y", "z"}

Upper == {"A", "B", "C", "D", "E", "F", "G", "H", "I", "J", "K", "L", "M",
          "N", "O", "P", "Q", "R", "S", "T", "U", "V", "W", "X", "Y", "Z"}

Digit == {"0", "1", "2", "3", "4", "5", "6", "7", "8", "9"}

\* the regex class [A-Za-z0-9]
AlNum == Lower \cup Upper \cup Digit

\* the regex class \w, which decides \b
WordChar == AlNum \cup {"_"}

\* the least and the greatest element of a non-empty set of integers
Min(S) == CHOOSE a \in S : \A b \in S : a <= b

Max(S) == CHOOSE a \in S : \A b \in S : a >= b

\* s[a..b], empty when b < a
Slice(s, a, b) == IF b < a THEN <<>> ELSE SubSeq(s, a, b)

\* text.startswith(p, i)
StartsWith(s, p, i) ==
    /\ i >= 1
    /\ i + Len(p) - 1 <= Len(s)
    /\ SubSeq(s, i, i + Len(p) - 1) = p

\* text.find(p, i): the first position >= i where p starts, 0 when none
Find(s, p, i) ==
    LET js == {j \in i..(Len(s) - Len(p) + 1) : StartsWith(s, p, j)}
    IN IF js = {} THEN 0 ELSE Min(js)

\* the first position >= i holding character c, 0 when none
FindChar(s, c, i) ==
    LET js == {j \in i..Len(s) : s[j] = c}
    IN IF js = {} THEN 0 ELSE Min(js)

\* skip_ws(text, idx): the first position >= idx that holds no white space
skip_ws(text, idx) ==
    IF idx > Len(text) THEN idx
    ELSE Min({j \in idx..Len(text) : ~isspace(text[j])} \cup {Len(text) + 1})

\* the last position that holds no white space, 0 when none
LastNonSpace(s) ==
    Max({j \in 1..Len(s) : ~isspace(s[j])} \cup {0})

\* str.strip()
strip(s) == Slice(s, skip_ws(s, 1), LastNonSpace(s))

\* str.rstrip()
rstrip(s) == Slice(s, 1, LastNonSpace(s))

\* "sep".join(parts)
RECURSIVE join(_, _)
join(sep, parts) ==
    IF parts = <<>> THEN <<>>
    ELSE IF Len(parts) = 1 THEN parts[1]
    ELSE parts[1] \o sep \o join(sep, Tail(parts))

\* no match of a pattern at a position
NoMatch == <<0, <<>>>>

\* re.sub(pattern, repl, s), scanning from position i.  M(s, j) is the
\* pattern tried at position j: <<position after the match, replacement>>,
\* or NoMatch.  The leftmost match is replaced and the scan goes on after it.
RECURSIVE Sub(_, _, _)
Sub(M(_, _), s, i) ==
    LET js == {j \in i..Len(s) : M(s, j)[1] # 0}
    IN IF js = {} THEN Slice(s, i, Len(s))
       ELSE LET j == Min(js)
                m == M(s, j)
            IN Slice(s, i, j - 1) \o m[2] \o Sub(M, s, m[1])

\* a literal `old` at position j, replaced by `new`
LiteralAt(s, old, new, j) ==
    IF StartsWith(s, old, j) THEN <<j + Len(old), new>> ELSE NoMatch

\* str.replace(old, new): leftmost, non-overlapping occurrences
replace(s, old, new) == Sub(LAMBDA t, j : LiteralAt(t, old, new, j), s, 1)

\* a run of white space at position j, replaced by one space
SpaceRunAt(s, j) ==
    IF isspace(s[j]) THEN <<skip_ws(s, j), <<" ">>>> ELSE NoMatch

\* re.sub(r"\s+", " ", s)
collapse_ws(s) == Sub(SpaceRunAt, s, 1)

\* for key, value in table: out = out.replace(key, value), from entry k on
RECURSIVE ReplaceTable(_, _, _)
ReplaceTable(s, table, k) ==
    IF k > Len(table) THEN s
    ELSE LET r == replace(s, table[k][1], table[k][2])
         IN IF r = s THEN ReplaceTable(s, table, k + 1) ELSE ReplaceTable(r, table, k + 1)

\* re.split(r"(?<!\\)" + sep, s) for a literal sep: the pieces between the
\* separators that no backslash precedes, from position `from` on
RECURSIVE SplitFrom(_, _, _)
SplitFrom(s, sep, from) ==
    LET js == {j \in from..Len(s) : StartsWith(s, sep, j) /\ (j = 1 \/ s[j - 1] # BS)}
    IN IF js = {} THEN <<Slice(s, from, Len(s))>>
       ELSE <<Slice(s, from, Min(js) - 1)>> \o SplitFrom(s, sep, Min(js) + Len(sep))

(* ------------------------------------------------------------------ *)
(* latex_to_plaintext: stages before the environments                 *)
(* ------------------------------------------------------------------ *)

LACE_BRACE == <<"_", "_", "L", "A", "C", "E", "_", "B", "R", "A", "C", "E", "_", "_">>

RACE_BRACE == <<"_", "_", "R", "A", "C", "E", "_", "B", "R", "A", "C", "E", "_", "_">>

escaped_amp_placeholder ==
    <<"_", "_", "L", "A", "T", "E", "X", "C", "L", "I", "P", "_",
      "E", "S", "C", "_", "A", "M", "P", "_", "_">>

\* out.replace("\r\n", "\n").replace("\r", "\n")
normalize_newlines(s) == replace(replace(s, <<"\r", "\n">>, <<"\n">>), <<"\r">>, <<"\n">>)

\* out.replace(r"\{", "__LACE_BRACE__").replace(r"\}", "__RACE_BRACE__")
protect_braces(s) == replace(replace(s, <<BS, "{">>, LACE_BRACE), <<BS, "}">>, RACE_BRACE)

\* out.replace(r"\&", escaped_amp_placeholder)
protect_amp(s) == replace(s, <<BS, "&">>, escaped_amp_placeholder)

\* the pattern d(.*?)d at position j for a literal delimiter d, replaced by
\* group 1: the span runs to the nearest closing d
DelimitedAt(s, d, j) ==
    LET close == IF StartsWith(s, d, j) THEN Find(s, d, j + Len(d)) ELSE 0
    IN IF close # 0 THEN <<close + Len(d), Slice(s, j + Len(d), close - 1)>> ELSE NoMatch

\* re.sub(r"\$\$(.*?)\$\$", r"\1", out, flags=re.DOTALL) and then the same
\* for \$(.*?)\$
strip_math_delims(s) ==
    Sub(LAMBDA t, j : DelimitedAt(t, <<"$">>, j),
        Sub(LAMBDA t, j : DelimitedAt(t, <<"$", "$">>, j), s, 1), 1)

TEXT_MACROS ==
    << <<"t", "e", "x", "t">>,
       <<"t", "e", "x", "t", "b", "f">>,
       <<"t", "e", "x", "t", "i", "t">>,
       <<"t", "e", "x", "t", "r", "m">>,
       <<"t", "e", "x", "t", "s", "f">>,
       <<"t", "e", "x", "t", "t", "t">>,
       <<"o", "p", "e", "r", "a", "t", "o", "r", "n", "a", "m", "e">>,
       <<"m", "a", "t", "h", "r", "m">>,
       <<"m", "a", "t", "h", "b", "f">>,
       <<"m", "a", "t", "h", "i", "t">>,
       <<"m", "a", "t", "h", "s", "f">>,
       <<"m", "a", "t", "h", "t", "t">> >>

\* unwrap_text(match), given group 1
unwrap_text(inner) ==
    replace(strip(collapse_ws(replace(inner, <<BS, " ">>, <<" ">>))),
            escaped_amp_placeholder, <<"&">>)

\* The pattern \\(?:n1|n2|...)\*?\{([^}]*)\} at position j for the macro
\* names `names`: <<position of the opening brace, position of the closing
\* brace>>, or <<0, 0>> when it does not match.  The group ends at the first
\* closing brace.
MacroGroupAt(s, names, j) ==
    IF s[j] # BS THEN <<0, 0>>
    ELSE LET opens == {q \in (j + 1)..Len(s) :
                         /\ s[q] = "{"
                         /\ \E k \in 1..Len(names) :
                               /\ StartsWith(s, names[k], j + 1)
                               /\ \/ q = j + 1 + Len(names[k])
                                  \/ /\ q = j + 2 + Len(names[k])
                                     /\ s[q - 1] = "*"}
             q == Min(opens)
             c == FindChar(s, "}", q + 1)
         IN IF opens = {} THEN <<0, 0>>
            ELSE IF c = 0 THEN <<0, 0>>
            ELSE <<q, c>>

\* TextMacroAt for a pattern that never matches
TextMacroAt_never(s, j) == NoMatch

\* text_macro_pattern at position j, replaced by unwrap_text of its group
TextMacroAt(s, j) ==
    LET g == MacroGroupAt(s, TEXT_MACROS, j)
    IN IF g[1] = 0 THEN NoMatch
       ELSE <<g[2] + 1, unwrap_text(Slice(s, g[1] + 1, g[2] - 1))>>

\* re.sub(text_macro_pattern, unwrap_text, out)
unwrap_text_macros(s) == Sub(TextMacroAt, s, 1)

\* the space_cmds table, in the order the loop visits it
space_cmds ==
    << << <<BS, ",">>, <<" ">> >>,
       << <<BS, ";">>, <<" ">> >>,
       << <<BS, ":">>, <<" ">> >>,
       << <<BS, "!">>, <<>> >>,
       << <<BS, "q", "u", "a", "d">>, <<" ">> >>,
       << <<BS, "q", "q", "u", "a", "d">>, <<" ">> >>,
       << <<"~">>, <<" ">> >> >>

\* for cmd, replacement in space_cmds.items(): out = out.replace(cmd, replacement)
replace_space_cmds(s) == ReplaceTable(s, space_cmds, 1)

(* ------------------------------------------------------------------ *)
(* latex_to_plaintext: structured environments                        *)
(* ------------------------------------------------------------------ *)

\* structured_envs: environment name and kind, in the order of the table
structured_envs ==
    <<
       << <<"m", "a", "t", "r", "i", "x">>, "matrix" >>,
       << <<"p", "m", "a", "t", "r", "i", "x">>, "matrix" >>,
       << <<"b", "m", "a", "t", "r", "i", "x">>, "matrix" >>,
       << <<"B", "m", "a", "t", "r", "i", "x">>, "matrix" >>,
       << <<"v", "m", "a", "t", "r", "i", "x">>, "matrix" >>,
       << <<"V", "m", "a", "t", "r", "i", "x">>, "matrix" >>,
       << <<"s", "m", "a", "l", "l", "m", "a", "t", "r", "i", "x">>, "matrix" >>,
       << <<"a", "r", "r", "a", "y">>, "matrix" >>,
       << <<"c", "a", "s", "e", "s">>, "cases" >>,
       << <<"a", "l", "i", "g", "n", "e", "d">>, "aligned" >>,
       << <<"a", "l", "i", "g", "n">>, "aligned" >>,
       << <<"a", "l", "i", "g", "n", "*">>, "aligned" >>,
       << <<"a", "l", "i", "g", "n", "a", "t">>, "aligned" >>,
       << <<"a", "l", "i", "g", "n", "a", "t", "*">>, "aligned" >>,
       << <<"a", "l", "i", "g", "n", "e", "d", "a", "t">>, "aligned" >>,
       << <<"g", "a", "t", "h", "e", "r">>, "aligned" >>,
       << <<"g", "a", "t", "h", "e", "r", "*">>, "aligned" >>,
       << <<"s", "p", "l", "i", "t">>, "aligned" >>,
       << <<"m", "u", "l", "t", "l", "i", "n", "e">>, "aligned" >>,
       << <<"m", "u", "l", "t", "l", "i", "n", "e", "*">>, "aligned" >> >>

\* matrix_delims: name, left, right ("U+2016" is the double bar)
matrix_delims ==
    <<
       << <<"m", "a", "t", "r", "i", "x">>, "[", "]" >>,
       << <<"p", "m", "a", "t", "r", "i", "x">>, "(", ")" >>,
       << <<"b", "m", "a", "t", "r", "i", "x">>, "[", "]" >>,
       << <<"B", "m", "a", "t", "r", "i", "x">>, "{", "}" >>,
       << <<"v", "m", "a", "t", "r", "i", "x">>, "|", "|" >>,
       << <<"V", "m", "a", "t", "r", "i", "x">>, "U+2016", "U+2016" >>,
       << <<"s", "m", "a", "l", "l", "m", "a", "t", "r", "i", "x">>, "[", "]" >>,
       << <<"c", "a", "s", "e", "s">>, "{", "}" >>,
       << <<"a", "r", "r", "a", "y">>, "[", "]" >> >>

BeginTag == <<BS, "b", "e", "g", "i", "n", "{">>

EndTag(env) == <<BS, "e", "n", "d", "{">> \o env \o <<"}">>

NoEnv == [found |-> FALSE, start |-> 0, stop |-> 0, env |-> <<>>, body |-> <<>>]

\* matrix_pattern tried at position j: \begin{env}, an optional {colspec}
\* (taken when the rest then matches), the shortest body, \end{env}.
\* stop is the position after the match.
MatrixMatchAt(s, j) ==
    IF ~StartsWith(s, BeginTag, j) THEN NoEnv
    ELSE LET ks == {k \in 1..Len(structured_envs) :
                       StartsWith(s, structured_envs[k][1] \o <<"}">>, j + Len(BeginTag))}
             env == structured_envs[Min(ks)][1]
             p == j + Len(BeginTag) + Len(env) + 1
             c == IF p <= Len(s) /\ s[p] = "{" THEN FindChar(s, "}", p + 1) ELSE 0
             e1 == IF c # 0 THEN Find(s, EndTag(env), c + 1) ELSE 0
             e2 == Find(s, EndTag(env), p)
         IN IF ks = {} THEN NoEnv
            ELSE IF e1 # 0
            THEN [found |-> TRUE, start |-> j, stop |-> e1 + Len(EndTag(env)),
                  env |-> env, body |-> Slice(s, c + 1, e1 - 1)]
            ELSE IF e2 # 0
            THEN [found |-> TRUE, start |-> j, stop |-> e2 + Len(EndTag(env)),
                  env |-> env, body |-> Slice(s, p, e2 - 1)]
            ELSE NoEnv

\* matrix_search taking the rightmost match
matrix_search_last(s) ==
    LET js == {j \in 1..Len(s) : MatrixMatchAt(s, j).found}
    IN IF js = {} THEN NoEnv ELSE MatrixMatchAt(s, Max(js))

\* matrix_pattern.search(out): the leftmost match
matrix_search(s) ==
    LET js == {j \in 1..Len(s) : MatrixMatchAt(s, j).found}
    IN IF js = {} THEN NoEnv ELSE MatrixMatchAt(s, Min(js))

\* structured_envs.get(env, "matrix")
env_kind_of(env) ==
    LET ks == {k \in 1..Len(structured_envs) : structured_envs[k][1] = env}
    IN IF ks = {} THEN "matrix" ELSE structured_envs[Min(ks)][2]

\* env.rstrip("*")
RECURSIVE rstrip_star(_)
rstrip_star(env) ==
    IF env # <<>> /\ env[Len(env)] = "*" THEN rstrip_star(Slice(env, 1, Len(env) - 1))
    ELSE env

\* matrix_delims.get(env.rstrip("*"), ("[", "]"))
delims_of(env) ==
    LET ks == {k \in 1..Len(matrix_delims) : matrix_delims[k][1] = rstrip_star(env)}
    IN IF ks = {} THEN <<"[", "]">>
       ELSE <<matrix_delims[Min(ks)][2], matrix_delims[Min(ks)][3]>>

\* re.split(r"(?<!\\)\\\\", body)
split_rows(body) == SplitFrom(body, <<BS, BS>>, 1)

\* re.split(r"(?<!\\)&", row)
split_cols(row) == SplitFrom(row, <<"&">>, 1)

\* cols = [c.strip() for c in ...]; cols = [c.replace(placeholder, "&") for c in cols if c]
RECURSIVE keep_cols(_)
keep_cols(cols) ==
    IF cols = <<>> THEN <<>>
    ELSE IF strip(cols[1]) = <<>> THEN keep_cols(Tail(cols))
    ELSE <<replace(strip(cols[1]), escaped_amp_placeholder, <<"&">>)>>
         \o keep_cols(Tail(cols))

\* str.lstrip(",; ")
lstrip_punct(s) ==
    LET js == {j \in 1..Len(s) : s[j] \notin {",", ";", " "}}
    IN IF js = {} THEN <<>> ELSE Slice(s, Min(js), Len(s))

UpperSeq == <<"A", "B", "C", "D", "E", "F", "G", "H", "I", "J", "K", "L", "M",
              "N", "O", "P", "Q", "R", "S", "T", "U", "V", "W", "X", "Y", "Z">>

LowerSeq == <<"a", "b", "c", "d", "e", "f", "g", "h", "i", "j", "k", "l", "m",
              "n", "o", "p", "q", "r", "s", "t", "u", "v", "w", "x", "y", "z">>

\* str.lower(), on ASCII
lower(s) ==
    [j \in 1..Len(s) |->
        IF s[j] \in Upper THEN LowerSeq[CHOOSE k \in 1..Len(UpperSeq) : UpperSeq[k] = s[j]]
        ELSE s[j]]

Otherwise == <<"o", "t", "h", "e", "r", "w", "i", "s", "e">>

\* format_case_row without the test for "otherwise": every condition gets " if "
format_case_row_always_if(cols) ==
    LET v0 == IF cols # <<>> THEN cols[1] ELSE <<>>
        value == IF v0 # <<>> /\ v0[Len(v0)] \in {",", ";"}
                 THEN rstrip(Slice(v0, 1, Len(v0) - 1))
                 ELSE v0
        condition == IF Len(cols) > 1 THEN lstrip_punct(join(<<" ">>, Tail(cols))) ELSE <<>>
    IN IF condition # <<>> THEN value \o <<" ", "i", "f", " ">> \o condition ELSE value

\* the cases branch of format_matrix for the columns of one row
format_case_row(cols) ==
    LET v0 == IF cols # <<>> THEN cols[1] ELSE <<>>
        value == IF v0 # <<>> /\ v0[Len(v0)] \in {",", ";"}
                 THEN rstrip(Slice(v0, 1, Len(v0) - 1))
                 ELSE v0
        condition == IF Len(cols) > 1 THEN lstrip_punct(join(<<" ">>, Tail(cols))) ELSE <<>>
    IN IF condition # <<>>
       THEN IF StartsWith(lower(condition), Otherwise, 1)
            THEN value \o <<" ">> \o condition
            ELSE value \o <<" ", "i", "f", " ">> \o condition
       ELSE value

\* the loop over rows in format_matrix: the formatted rows
RECURSIVE format_rows(_, _)
format_rows(rows, kind) ==
    IF rows = <<>> THEN <<>>
    ELSE LET row == strip(rows[1])
             cols == keep_cols(split_cols(row))
         IN IF row = <<>> THEN format_rows(Tail(rows), kind)
            ELSE << (IF kind = "aligned" THEN join(<<" ">>, cols)
                     ELSE IF kind = "cases" THEN format_case_row(cols)
                     ELSE join(<<",", " ">>, cols)) >>
                 \o format_rows(Tail(rows), kind)

\* format_matrix(match), given the groups env and body
format_matrix(env, body) ==
    LET kind == env_kind_of(env)
        rows == split_rows(replace(body, <<BS, "h", "l", "i", "n", "e">>, <<>>))
        inner == join(<<";", " ">>, format_rows(rows, kind))
    IN IF kind = "aligned" THEN inner
       ELSE IF kind = "cases" THEN <<"{">> \o inner \o <<"}">>
       ELSE <<delims_of(env)[1]>> \o inner \o <<delims_of(env)[2]>>

\* env_step that leaves the block where it is
env_step_keep(s) == s

\* one turn of the while loop: the first block replaced by its rendering
env_step(s) ==
    LET m == matrix_search(s)
    IN Slice(s, 1, m.start - 1) \o format_matrix(m.env, m.body) \o Slice(s, m.stop, Len(s))

\* the whole while loop
RECURSIVE format_envs(_)
format_envs(s) == IF matrix_search(s).found THEN format_envs(env_step(s)) ELSE s

(* ------------------------------------------------------------------ *)
(* latex_to_plaintext: stages after the environments                  *)
(* ------------------------------------------------------------------ *)

\* the pattern (?<!\\)\\\\ at position j, replaced by "; "
RowBreakAt(s, j) ==
    IF StartsWith(s, <<BS, BS>>, j) /\ (j = 1 \/ s[j - 1] # BS)
    THEN <<j + 2, <<";", " ">>>>
    ELSE NoMatch

\* the pattern \s*&\s* at position j, replaced by " & "
AmpAt(s, j) ==
    LET k == skip_ws(s, j)
    IN IF k <= Len(s) /\ s[k] = "&"
       THEN <<skip_ws(s, k + 1), <<" ", "&", " ">>>>
       ELSE NoMatch

\* re.sub(r"(?<!\\)\\\\", "; ", out) and re.sub(r"\s*&\s*", " & ", out)
residual_rows_cols(s) == Sub(AmpAt, Sub(RowBreakAt, s, 1), 1)

\* the names of r"\\(sin|cos|...)\b"
FUNCTION_NAMES ==
    << <<"s", "i", "n">>,
       <<"c", "o", "s">>,
       <<"t", "a", "n">>,
       <<"l", "o", "g">>,
       <<"l", "n">>,
       <<"d", "e", "t">>,
       <<"d", "i", "m">>,
       <<"l", "i", "m">>,
       <<"e", "x", "p">>,
       <<"d", "e", "g">>,
       <<"s", "e", "c">>,
       <<"c", "s", "c">>,
       <<"c", "o", "t">> >>

\* the names of the greek pattern
GREEK_NAMES ==
    << <<"a", "l", "p", "h", "a">>,
       <<"b", "e", "t", "a">>,
       <<"g", "a", "m", "m", "a">>,
       <<"d", "e", "l", "t", "a">>,
       <<"e", "p", "s", "i", "l", "o", "n">>,
       <<"z", "e", "t", "a">>,
       <<"e", "t", "a">>,
       <<"t", "h", "e", "t", "a">>,
       <<"i", "o", "t", "a">>,
       <<"k", "a", "p", "p", "a">>,
       <<"l", "a", "m", "b", "d", "a">>,
       <<"m", "u">>,
       <<"n", "u">>,
       <<"x", "i">>,
       <<"p", "i">>,
       <<"r", "h", "o">>,
       <<"s", "i", "g", "m", "a">>,
       <<"t", "a", "u">>,
       <<"u", "p", "s", "i", "l", "o", "n">>,
       <<"p", "h", "i">>,
       <<"c", "h", "i">>,
       <<"p", "s", "i">>,
       <<"o", "m", "e", "g", "a">>,
       <<"G", "a", "m", "m", "a">>,
       <<"D", "e", "l", "t", "a">>,
       <<"T", "h", "e", "t", "a">>,
       <<"L", "a", "m", "b", "d", "a">>,
       <<"X", "i">>,
       <<"P", "i">>,
       <<"S", "i", "g", "m", "a">>,
       <<"U", "p", "s", "i", "l", "o", "n">>,
       <<"P", "h", "i">>,
       <<"P", "s", "i">>,
       <<"O", "m", "e", "g", "a">> >>

\* the pattern \\(n1|n2|...) at position j, with \b after it when `boundary`,
\* replaced by group 1: the first name in the order of the alternation
BackslashNameAt(s, names, boundary, j) ==
    LET ks == {k \in 1..Len(names) :
                  /\ StartsWith(s, names[k], j + 1)
                  /\ boundary => \/ j + 1 + Len(names[k]) > Len(s)
                                 \/ s[j + 1 + Len(names[k])] \notin WordChar}
    IN IF s[j] # BS \/ ks = {} THEN NoMatch
       ELSE <<j + 1 + Len(names[Min(ks)]), names[Min(ks)]>>

\* re.sub(r"\\(sin|cos|...)\b", r"\1", out)
strip_function_backslash(s) ==
    Sub(LAMBDA t, j : BackslashNameAt(t, FUNCTION_NAMES, TRUE, j), s, 1)

\* the replacements table: pattern and glyph, in the order of the dict
replacements ==
    << << <<"\\", "c", "d", "o", "t">>, <<"U+00B7">> >>,
       << <<"\\", "t", "i", "m", "e", "s">>, <<"U+00D7">> >>,
       << <<"\\", "p", "m">>, <<"U+00B1">> >>,
       << <<"\\", "m", "p">>, <<"U+2213">> >>,
       << <<"\\", "l", "e", "q">>, <<"U+2264">> >>,
       << <<"\\", "g", "e", "q">>, <<"U+2265">> >>,
       << <<"\\", "n", "e", "q">>, <<"U+2260">> >>,
       << <<"\\", "a", "p", "p", "r", "o", "x">>, <<"U+2248">> >>,
       << <<"\\", "s", "i", "m">>, <<"~">> >>,
       << <<"\\", "i", "n", "f", "t", "y">>, <<"U+221E">> >>,
       << <<"\\", "p", "a", "r", "t", "i", "a", "l">>, <<"U+2202">> >>,
       << <<"\\", "n", "a", "b", "l", "a">>, <<"U+2207">> >> >>

\* for pattern, repl in replacements.items(): out = re.sub(pattern, repl, out)
replace_symbols(s) == ReplaceTable(s, replacements, 1)

\* re.sub(r"\\(" + greek + r")", r"\1", out)
strip_greek_backslash(s) ==
    Sub(LAMBDA t, j : BackslashNameAt(t, GREEK_NAMES, FALSE, j), s, 1)

\* the pattern \\sqrt\[([^\]]*)\]\{([^}]*)\} at position j, replaced by (\2)^(1/\1)
NthRootAt(s, j) ==
    LET b == IF StartsWith(s, <<BS, "s", "q", "r", "t", "[">>, j)
             THEN FindChar(s, "]", j + 6) ELSE 0
        c == IF b # 0 /\ b + 1 <= Len(s) /\ s[b + 1] = "{"
             THEN FindChar(s, "}", b + 2) ELSE 0
    IN IF c = 0 THEN NoMatch
       ELSE <<c + 1, <<"(">> \o Slice(s, b + 2, c - 1) \o <<")", "^", "(", "1", "/">>
                     \o Slice(s, j + 6, b - 1) \o <<")">> >>

\* SqrtAt with the radicand ended at the last closing brace
SqrtAt_last_brace(s, j) ==
    LET cs == IF StartsWith(s, <<BS, "s", "q", "r", "t", "{">>, j)
              THEN {q \in (j + 6)..Len(s) : s[q] = "}"} ELSE {}
    IN IF cs = {} THEN NoMatch
       ELSE <<Max(cs) + 1,
              <<"s", "q", "r", "t", "(">> \o Slice(s, j + 6, Max(cs) - 1) \o <<")">> >>

\* the pattern \\sqrt\{([^}]*)\} at position j, replaced by sqrt(\1)
SqrtAt(s, j) ==
    LET c == IF StartsWith(s, <<BS, "s", "q", "r", "t", "{">>, j)
             THEN FindChar(s, "}", j + 6) ELSE 0
    IN IF c = 0 THEN NoMatch
       ELSE <<c + 1, <<"s", "q", "r", "t", "(">> \o Slice(s, j + 6, c - 1) \o <<")">> >>

\* the two root substitutions
rewrite_roots(s) == Sub(SqrtAt, Sub(NthRootAt, s, 1), 1)

\* the while loop of extract_braced from position i:
\* <<found, content, next position>>
RECURSIVE ExtractLoop(_, _, _, _, _)
ExtractLoop(text, start, i, depth, buf) ==
    IF i > Len(text) THEN <<FALSE, <<>>, start>>
    ELSE IF text[i] = "{"
         THEN ExtractLoop(text, start, i + 1, depth + 1,
                          IF depth + 1 > 1 THEN Append(buf, text[i]) ELSE buf)
    ELSE IF text[i] = "}"
         THEN IF depth - 1 = 0 THEN <<TRUE, buf, i + 1>>
              ELSE ExtractLoop(text, start, i + 1, depth - 1, Append(buf, text[i]))
    ELSE ExtractLoop(text, start, i + 1, depth, Append(buf, text[i]))

\* extract_braced(text, start); found = FALSE stands for (None, start)
extract_braced(text, start) ==
    IF start > Len(text) \/ text[start] # "{" THEN <<FALSE, <<>>, start>>
    ELSE ExtractLoop(text, start, start, 0, <<>>)

FRAC_COMMANDS ==
    << <<BS, "f", "r", "a", "c">>,
       <<BS, "d", "f", "r", "a", "c">>,
       <<BS, "t", "f", "r", "a", "c">> >>

BINOM_COMMANDS ==
    << <<BS, "b", "i", "n", "o", "m">>,
       <<BS, "d", "b", "i", "n", "o", "m">>,
       <<BS, "t", "b", "i", "n", "o", "m">> >>

\* next((c for c in commands if text.startswith(c, i)), None): its index, 0 for None
CommandAt(text, commands, i) ==
    LET ks == {k \in 1..Len(commands) : StartsWith(text, commands[k], i)}
    IN IF ks = {} THEN 0 ELSE Min(ks)

\* TwoGroups that takes a missing second group as an empty one
TwoGroups_one(text, commands, i) ==
    LET k == CommandAt(text, commands, i)
        g1 == extract_braced(text, skip_ws(text, i + Len(commands[k])))
    IN IF k = 0 THEN <<FALSE, <<>>, <<>>, i>>
       ELSE IF ~g1[1] THEN <<FALSE, <<>>, <<>>, i>>
       ELSE <<TRUE, g1[2], <<>>, g1[3]>>

\* the two groups after the command at i, as the loop body extracts them:
\* <<found, first, second, next position>>
TwoGroups(text, commands, i) ==
    LET k == CommandAt(text, commands, i)
        g1 == extract_braced(text, skip_ws(text, i + Len(commands[k])))
        g2 == extract_braced(text, skip_ws(text, g1[3]))
    IN IF k = 0 THEN <<FALSE, <<>>, <<>>, i>>
       ELSE IF ~g1[1] THEN <<FALSE, <<>>, <<>>, i>>
       ELSE IF ~g2[1] THEN <<FALSE, <<>>, <<>>, i>>
       ELSE <<TRUE, g1[2], g2[2], g2[3]>>

\* frac_piece without the parentheses
frac_piece_bare(num, den) == num \o <<"/">> \o den

\* pieces.append(f"({num})/({den})")
frac_piece(num, den) == <<"(">> \o num \o <<")", "/", "(">> \o den \o <<")">>

\* binom_piece with the groups exchanged
binom_piece_swapped(up, lo) == <<"C", "(">> \o lo \o <<",", " ">> \o up \o <<")">>

\* pieces.append(f"C({upper}, {lower})")
binom_piece(up, lo) == <<"C", "(">> \o up \o <<",", " ">> \o lo \o <<")">>

\* replace_frac_like(text): at a command with two groups the piece is
\* appended and the scan goes on after them; any other character is copied
RECURSIVE FracFrom(_, _)
FracFrom(text, i) ==
    LET js == {j \in i..Len(text) : TwoGroups(text, FRAC_COMMANDS, j)[1]}
        g == TwoGroups(text, FRAC_COMMANDS, Min(js))
    IN IF js = {} THEN Slice(text, i, Len(text))
       ELSE Slice(text, i, Min(js) - 1)
            \o frac_piece(FracFrom(g[2], 1), FracFrom(g[3], 1))
            \o FracFrom(text, g[4])

replace_frac_like(text) == FracFrom(text, 1)

\* replace_binomials(text), in the same way
RECURSIVE BinomFrom(_, _)
BinomFrom(text, i) ==
    LET js == {j \in i..Len(text) : TwoGroups(text, BINOM_COMMANDS, j)[1]}
        g == TwoGroups(text, BINOM_COMMANDS, Min(js))
    IN IF js = {} THEN Slice(text, i, Len(text))
       ELSE Slice(text, i, Min(js) - 1)
            \o binom_piece(BinomFrom(g[2], 1), BinomFrom(g[3], 1))
            \o BinomFrom(text, g[4])

replace_binomials(text) == BinomFrom(text, 1)

\* the pattern \^\{([^}]*)\} at position j, replaced by ^\1
CaretGroupAt(s, j) ==
    LET c == IF StartsWith(s, <<"^", "{">>, j) THEN FindChar(s, "}", j + 2) ELSE 0
    IN IF c = 0 THEN NoMatch ELSE <<c + 1, <<"^">> \o Slice(s, j + 2, c - 1)>>

\* str.strip("{}")
strip_braces(s) ==
    LET js == {j \in 1..Len(s) : s[j] \notin {"{", "}"}}
    IN IF js = {} THEN <<>> ELSE Slice(s, Min(js), Max(js))

\* the pattern mark(\{[^}]*\}|[single]) at position j, replaced by
\* mark + m.group(1).strip("{}")
ScriptAt(s, mark, single, j) ==
    LET c == IF StartsWith(s, <<mark, "{">>, j) THEN FindChar(s, "}", j + 2) ELSE 0
    IN IF c # 0 THEN <<c + 1, <<mark>> \o strip_braces(Slice(s, j + 1, c))>>
       ELSE IF s[j] = mark /\ j + 1 <= Len(s) /\ s[j + 1] \in single
       THEN <<j + 2, <<mark, s[j + 1]>>>>
       ELSE NoMatch

\* the three substitutions on superscripts and subscripts
simplify_scripts(s) ==
    Sub(LAMBDA t, j : ScriptAt(t, "^", AlNum \cup {"+", "-", "*", "/"}, j),
        Sub(LAMBDA t, j : ScriptAt(t, "_", AlNum, j),
            Sub(CaretGroupAt, s, 1), 1), 1)

\* out.replace(r"\left", "").replace(r"\right", "")
remove_left_right(s) ==
    replace(replace(s, <<BS, "l", "e", "f", "t">>, <<>>), <<BS, "r", "i", "g", "h", "t">>, <<>>)

\* out.replace("{", "(").replace("}", ")")
braces_to_parens(s) == replace(replace(s, <<"{">>, <<"(">>), <<"}">>, <<")">>)

\* restore_placeholders without the last statement
restore_braces_only(s) == replace(replace(s, LACE_BRACE, <<"{">>), RACE_BRACE, <<"}">>)

\* out.replace("__LACE_BRACE__", "{").replace("__RACE_BRACE__", "}") and
\* out.replace(escaped_amp_placeholder, "&")
restore_placeholders(s) ==
    replace(replace(replace(s, LACE_BRACE, <<"{">>), RACE_BRACE, <<"}">>),
            escaped_amp_placeholder, <<"&">>)

\* re.sub(r"\s+", " ", out).strip()
collapse_and_strip(s) == strip(collapse_ws(s))

\* the value of `out` after each statement of latex_to_plaintext, in order
plaintext_stages(s) ==
    LET s1 == normalize_newlines(s)
        s2 == protect_braces(s1)
        s3 == protect_amp(s2)
        s4 == strip_math_delims(s3)
        s5 == unwrap_text_macros(s4)
        s6 == replace_space_cmds(s5)
        s7 == format_envs(s6)
        s8 == residual_rows_cols(s7)
        s9 == strip_function_backslash(s8)
        s10 == replace_symbols(s9)
        s11 == strip_greek_backslash(s10)
        s12 == rewrite_roots(s11)
        s13 == replace_frac_like(s12)
        s14 == replace_binomials(s13)
        s15 == simplify_scripts(s14)
        s16 == remove_left_right(s15)
        s17 == braces_to_parens(s16)
        s18 == restore_placeholders(s17)
        s19 == collapse_and_strip(s18)
    IN <<s1, s2, s3, s4, s5, s6, s7, s8, s9, s10,
         s11, s12, s13, s14, s15, s16, s17, s18, s19>>

\* latex_to_plaintext(s): the value returned
latex_to_plaintext(s) == plaintext_stages(s)[Len(plaintext_stages(s))]

(* ------------------------------------------------------------------ *)
(* sanitize_for_mathtext                                              *)
(* ------------------------------------------------------------------ *)

\* the characters of the class [%&#$]
RESERVED == {"%", "&", "#", "$"}

\* text.endswith(p)
EndsWith(s, p) ==
    /\ Len(p) <= Len(s)
    /\ SubSeq(s, Len(s) - Len(p) + 1, Len(s)) = p

\* if text.startswith(open) and text.endswith(close): text = text[2:-2].strip()
\* for a two-character open and close
unwrap_display(t, open, close) ==
    IF StartsWith(t, open, 1) /\ EndsWith(t, close)
    THEN strip(Slice(t, 3, Len(t) - 2))
    ELSE t

\* text.startswith("$") and text.endswith("$")
is_already_math(t) == StartsWith(t, <<"$">>, 1) /\ EndsWith(t, <<"$">>)

\* EscapeAt without the lookbehind: every reserved character is prefixed
EscapeAt_any(s, j) ==
    IF s[j] \in RESERVED THEN <<j + 1, <<BS, s[j]>>>> ELSE NoMatch

\* the pattern (?<!\\)([%&#$]) at position j, replaced by \\\1
EscapeAt(s, j) ==
    IF s[j] \in RESERVED /\ (j = 1 \/ s[j - 1] # BS)
    THEN <<j + 1, <<BS, s[j]>>>>
    ELSE NoMatch

\* escape_literals(segment)
escape_literals(segment) == Sub(EscapeAt, segment, 1)

\* the names of r"\\(text|operatorname)\*?\{([^}]*)\}"
TEXT_BLOCK_MACROS ==
    << <<"t", "e", "x", "t">>,
       <<"o", "p", "e", "r", "a", "t", "o", "r", "n", "a", "m", "e">> >>

\* convert_text_block with the spaces left as they are
convert_text_block_plain(content) ==
    <<"\\", "m", "a", "t", "h", "r", "m", "{">>
    \o Sub(EscapeAt, strip(collapse_ws(replace(replace(content, <<BS, " ">>, <<" ">>),
                                               <<"~">>, <<" ">>))), 1)
    \o <<"}">>

\* convert_text_block(match), given group 2
convert_text_block(content) ==
    LET c1 == replace(content, <<BS, " ">>, <<" ">>)
        c2 == replace(c1, <<"~">>, <<" ">>)
        c3 == strip(collapse_ws(c2))
        c4 == Sub(EscapeAt, c3, 1)
        c5 == replace(c4, <<" ">>, <<BS, " ">>)
    IN <<"\\", "m", "a", "t", "h", "r", "m", "{">> \o c5 \o <<"}">>

\* the text block pattern at position j, replaced by convert_text_block
TextBlockAt(s, j) ==
    LET g == MacroGroupAt(s, TEXT_BLOCK_MACROS, j)
    IN IF g[1] = 0 THEN NoMatch
       ELSE <<g[2] + 1, convert_text_block(Slice(s, g[1] + 1, g[2] - 1))>>

\* re.sub(r"\\(text|operatorname)\*?\{([^}]*)\}", convert_text_block, text)
convert_text_blocks(t) == Sub(TextBlockAt, t, 1)

\* if not already_math and "\n" not in text: text = f"${text}$"
wrap_math(t, flag) ==
    IF ~flag /\ (\A j \in 1..Len(t) : t[j] # "\n")
    THEN <<"$">> \o t \o <<"$">>
    ELSE t

\* the value of `text` after each statement of sanitize_for_mathtext, in order
sanitizer_stages(s) ==
    LET t1 == strip(s)
        t2 == unwrap_display(t1, <<"$", "$">>, <<"$", "$">>)
        t3 == unwrap_display(t2, <<BS, "[">>, <<BS, "]">>)
        t4 == convert_text_blocks(t3)
        t5 == escape_literals(t4)
        t6 == remove_left_right(t5)
        t7 == collapse_and_strip(t6)
        t8 == wrap_math(t7, is_already_math(t3))
    IN <<t1, t2, t3, t4, t5, t6, t7, t8>>

\* sanitize_for_mathtext(s): the value returned
sanitize_for_mathtext(s) == sanitizer_stages(s)[Len(sanitizer_stages(s))]

(* ------------------------------------------------------------------ *)
(* The arguments the functions are called with                        *)
(* ------------------------------------------------------------------ *)

\* the deepest nesting of fractions and binomials in an argument
MaxDepth == 2

\* the most cells in the body of a matrix or aligned environment
MaxCells == 3

\* the most rows in the body of a cases environment
MaxRows == 2

\* the most fragments in an argument of the sanitizer
MaxFrags == 3

\* the most atoms in the content of a text block
MaxBlock == 3

\* the elements of a sequence
Range(seq) == {seq[k] : k \in 1..Len(seq)}

\* the sequences over S of 1 to n elements
SeqsUpTo(S, n) == UNION {[1..k -> S] : k \in 1..n}

\* the parts one after the other
Concat(parts) == join(<<>>, parts)

\* command{A}{B}
TwoGroupCommand(command, A, B) ==
    command \o <<"{">> \o A \o <<"}", "{">> \o B \o <<"}">>

\* the groups without a command; one has white space at its ends
Leaves == {<<"1">>, <<"x">>, <<" ", "a", " ">>}

\* the group beside a nested one
Other == <<"y">>

\* how a nested command is written in a group: what precedes it, and the command
InnerForms == { <<<<"1", "+">>, <<"\\", "f", "r", "a", "c">>>>, <<<<>>, <<"\\", "t", "f", "r", "a", "c">>>>, <<<<>>, <<"\\", "d", "b", "i", "n", "o", "m">>>> }

\* the groups with commands nested at most d deep
RECURSIVE Groups(_)
Groups(d) ==
    IF d = 0 THEN Leaves
    ELSE Leaves \cup
         {f[1] \o TwoGroupCommand(f[2], p[1], p[2]) :
             f \in InnerForms,
             p \in (Groups(d - 1) \X {Other}) \cup ({Other} \X Groups(d - 1))}

\* one fraction or binomial, nested at most MaxDepth deep
FracInputs ==
    {TwoGroupCommand(c, p[1], p[2]) :
        c \in Range(FRAC_COMMANDS) \cup Range(BINOM_COMMANDS),
        p \in (Groups(MaxDepth - 1) \X {Other}) \cup ({Other} \X Groups(MaxDepth - 1))}

\* the cells of a body, by position
CellNames == <<<<"a">>, <<"b">>, <<"c">>, <<"d">>, <<"e">>>>

CellName(k) == CellNames[((k - 1) % Len(CellNames)) + 1]

\* The bodies of 1 to MaxCells cells: `present` tells the cells that are
\* written (the others are empty), `breaks` the cells a row break follows
\* (a & follows the others).
BodyShapes ==
    UNION {{[present |-> p, breaks |-> b] :
               p \in [1..n -> BOOLEAN], b \in [1..(n - 1) -> BOOLEAN]} : n \in 1..MaxCells}

\* the bodies of one row with every cell written
FullRowShapes ==
    {sh \in BodyShapes : /\ \A k \in 1..Len(sh.present) : sh.present[k]
                         /\ \A k \in 1..Len(sh.breaks) : ~sh.breaks[k]}

\* the body as it is written, from cell k on
RECURSIVE WriteBody(_, _)
WriteBody(sh, k) ==
    IF k > Len(sh.present) THEN <<>>
    ELSE (IF k = 1 THEN <<>> ELSE IF sh.breaks[k - 1] THEN <<BS, BS>> ELSE <<"&">>)
         \o (IF sh.present[k] THEN <<" ">> \o CellName(k) \o <<" ">> ELSE <<>>)
         \o WriteBody(sh, k + 1)

\* \begin{env}colspec body \end{env}
EnvInput(env, colspec, body) ==
    BeginTag \o env \o <<"}">> \o colspec \o body \o EndTag(env)

\* the names of a kind, in the order of structured_envs
EnvsOfKind(kind) ==
    {structured_envs[k][1] : k \in {j \in 1..Len(structured_envs) : structured_envs[j][2] = kind}}

\* the column specification an environment is written with
ColSpecOf(env) == IF env = <<"a", "r", "r", "a", "y">> THEN <<"{", "c", "c", "}">> ELSE <<>>

\* bmatrix with every body, and every matrix variant with the full rows
MatrixInputs ==
    {EnvInput(<<"b", "m", "a", "t", "r", "i", "x">>, <<>>, WriteBody(sh, 1)) : sh \in BodyShapes}
    \cup {EnvInput(env, ColSpecOf(env), WriteBody(sh, 1)) :
             env \in EnvsOfKind("matrix"), sh \in FullRowShapes}

\* align* with every body, and every aligned variant with the full rows
AlignedInputs ==
    {EnvInput(<<"a", "l", "i", "g", "n", "*">>, <<>>, WriteBody(sh, 1)) : sh \in BodyShapes}
    \cup {EnvInput(env, <<>>, WriteBody(sh, 1)) :
             env \in EnvsOfKind("aligned"), sh \in FullRowShapes}

\* The rows of a cases environment: as written, and the value and the
\* condition the row has once the text macro is unwrapped, the one trailing
\* mark of the value and the leading marks of the condition are gone;
\* `otherwise` tells a condition that starts with that word.
CaseRows ==
    { [src |-> <<"x", "^", "2", ",", " ", "&", " ", "x", " ", ">", " ", "0">>, value |-> <<"x", "^", "2">>, cond |-> <<"x", " ", ">", " ", "0">>, otherwise |-> FALSE],
      [src |-> <<"0", ";", " ", "&", " ", "\\", "t", "e", "x", "t", "{", "o", "t", "h", "e", "r", "w", "i", "s", "e", "}">>, value |-> <<"0">>, cond |-> <<"o", "t", "h", "e", "r", "w", "i", "s", "e">>, otherwise |-> TRUE],
      [src |-> <<"y">>, value |-> <<"y">>, cond |-> <<>>, otherwise |-> FALSE],
      [src |-> <<"z", ",", " ", "&", " ", ",", ";", " ", "O", "t", "h", "e", "r", "w", "i", "s", "e", " ", "&", " ", "w">>, value |-> <<"z">>, cond |-> <<"O", "t", "h", "e", "r", "w", "i", "s", "e", " ", "w">>, otherwise |-> TRUE],
      [src |-> <<"1", ",", ";", " ", "&", " ", ";", "x", " ", "<", " ", "0">>, value |-> <<"1", ",">>, cond |-> <<"x", " ", "<", " ", "0">>, otherwise |-> FALSE] }

\* the src fields of rows
SrcOf(rows) == [k \in 1..Len(rows) |-> rows[k].src]

\* a cases environment of the rows
CasesInput(rows) ==
    EnvInput(<<"c", "a", "s", "e", "s">>, <<>>, <<" ">> \o join(<<" ", "\\", "\\", " ">>, SrcOf(rows)) \o <<" ">>)

CasesInputs == {CasesInput(rows) : rows \in SeqsUpTo(CaseRows, MaxRows)}

\* a text block with an ampersand, plain and escaped
TextAmpBlocks == {<<"\\", "t", "e", "x", "t", "{", "a", " ", "&", " ", "b", "}">>, <<"\\", "t", "e", "x", "t", "{", "a", " ", "\\", "&", " ", "b", "}">>}

\* the block alone, in a formula, and in a cell of each kind of environment
TextAmpInputs ==
    UNION {{ blk,
             <<"x", " ", "=", " ">> \o blk,
             EnvInput(<<"b", "m", "a", "t", "r", "i", "x">>, <<>>, blk \o <<" ", "&", " ", "c">>),
             EnvInput(<<"c", "a", "s", "e", "s">>, <<>>, <<"1", ",", " ", "&", " ">> \o blk),
             EnvInput(<<"a", "l", "i", "g", "n", "e", "d">>, <<>>, blk \o <<" ", "&", "=", " ", "c">>) } : blk \in TextAmpBlocks}

\* the inputs the tests and the specification name
PlainExamples ==
    { <<"\\", "f", "r", "a", "c", "{", "1", "+", "\\", "f", "r", "a", "c", "{", "1", "}", "{", "x", "}", "}", "{", "y", "}">>,
      <<"\\", "d", "f", "r", "a", "c", "{", "a", "}", "{", "\\", "t", "f", "r", "a", "c", "{", "b", "}", "{", "c", "}", "}">>,
      <<"\\", "b", "i", "n", "o", "m", "{", "n", "}", "{", "k", "}">>,
      <<"\\", "d", "b", "i", "n", "o", "m", "{", "\\", "d", "f", "r", "a", "c", "{", "n", "}", "{", "2", "}", "}", "{", "k", "}">>,
      <<"\\", "b", "e", "g", "i", "n", "{", "b", "m", "a", "t", "r", "i", "x", "}", " ", "a", " ", "&", " ", "b", " ", "\\", "\\", " ", "c", " ", "&", " ", "d", " ", "\\", "e", "n", "d", "{", "b", "m", "a", "t", "r", "i", "x", "}">>,
      <<"\\", "b", "e", "g", "i", "n", "{", "c", "a", "s", "e", "s", "}", " ", "x", "^", "2", ",", " ", "&", " ", "x", " ", ">", " ", "0", " ", "\\", "\\", " ", "0", ",", " ", "&", " ", "\\", "t", "e", "x", "t", "{", "o", "t", "h", "e", "r", "w", "i", "s", "e", "}", " ", "\\", "e", "n", "d", "{", "c", "a", "s", "e", "s", "}">>,
      <<"\\", "b", "e", "g", "i", "n", "{", "a", "l", "i", "g", "n", "*", "}", " ", "a", " ", "&", "=", " ", "b", " ", "+", " ", "c", " ", "\\", "\\", " ", "d", " ", "&", "=", " ", "e", " ", "-", " ", "f", " ", "\\", "e", "n", "d", "{", "a", "l", "i", "g", "n", "*", "}">>,
      <<"$", "$", "N", "O", "I", " ", "=", " ", "\\", "t", "e", "x", "t", "{", "G", "r", "o", "s", "s", " ", "P", "o", "t", "e", "n", "t", "i", "a", "l", " ", "I", "n", "c", "o", "m", "e", "}", " ", "-", " ", "\\", "t", "e", "x", "t", "{", "V", "a", "c", "a", "n", "c", "y", " ", "&", " ", "C", "o", "l", "l", "e", "c", "t", "i", "o", "n", " ", "L", "o", "s", "s", "e", "s", "}", "$", "$">>,
      <<"\\", "t", "e", "x", "t", "{", "A", "r", "e", "a", "}", " ", "=", " ", "\\", "f", "r", "a", "c", "{", "1", "}", "{", "2", "}", " ", "b", " ", "h">>,
      <<"\\", "m", "a", "t", "h", "b", "f", "{", "N", "e", "t", "}", "~", "\\", "m", "a", "t", "h", "r", "m", "{", "I", "n", "c", "o", "m", "e", "}">>,
      <<"\\", "b", "e", "g", "i", "n", "{", "a", "r", "r", "a", "y", "}", "{", "c", "c", "}", " ", "\\", "h", "l", "i", "n", "e", " ", "a", " ", "&", " ", "b", " ", "\\", "\\", " ", "\\", "h", "l", "i", "n", "e", " ", "c", " ", "&", " ", "d", " ", "\\", "e", "n", "d", "{", "a", "r", "r", "a", "y", "}">> }

\* the escaped characters the function protects
Escapes == { <<"\\", "{">>, <<"\\", "}">>, <<"\\", "&">> }

\* what stands directly before and after an escaped character
BeforeEscape == { <<>>, <<"x", "_">>, <<"x", "^">>, <<BS>> }

AfterEscape == { <<>>, <<"{", "a", "}">>, <<"_", "{", "a", "}">>, <<"^", "{", "2", "}">>, <<"x">>, <<"_", "1">>, <<"_">> }

\* an escaped character with what stands around it
EscapeBodies ==
    {b \o e \o a : b \in BeforeEscape, e \in Escapes, a \in AfterEscape}

\* such a body alone, in a root, in a fraction, in a matrix, and after a
\* text macro that holds the escaped character
PlaceholderInputs ==
    EscapeBodies
    \cup {<<"\\", "s", "q", "r", "t", "{">> \o b \o <<"}">> : b \in EscapeBodies}
    \cup {<<"y", "\\", "f", "r", "a", "c", "{">> \o b \o <<"}", "{", "\\", "}", "}">> : b \in EscapeBodies}
    \cup {EnvInput(<<"b", "m", "a", "t", "r", "i", "x">>, <<>>, b \o <<" ", "&", " ", "\\", "{">>) : b \in EscapeBodies}
    \cup {<<"\\", "t", "e", "x", "t", "b", "f", "{">> \o e \o <<"}">> \o a : e \in Escapes, a \in AfterEscape}

\* the marker of a horizontal rule
Hline == <<"\\", "h", "l", "i", "n", "e">>

\* the body of a shape with a marker before every cell k that marks[k]
\* tells (directly after the & or the row break that precedes the cell),
\* from cell k on
RECURSIVE WriteRuledBody(_, _, _)
WriteRuledBody(sh, marks, k) ==
    IF k > Len(sh.present) THEN <<>>
    ELSE (IF k = 1 THEN <<>> ELSE IF sh.breaks[k - 1] THEN <<BS, BS>> ELSE <<"&">>)
         \o (IF marks[k] THEN Hline ELSE <<>>)
         \o (IF sh.present[k] THEN <<" ">> \o CellName(k) \o <<" ">> ELSE <<>>)
         \o WriteRuledBody(sh, marks, k + 1)

\* bmatrix with every body and every choice of at least one marker
HlineInputs ==
    UNION {{EnvInput(<<"b", "m", "a", "t", "r", "i", "x">>, <<>>, WriteRuledBody(sh, marks, 1)) :
               marks \in {mk \in [1..Len(sh.present) -> BOOLEAN] :
                             \E k \in 1..Len(sh.present) : mk[k]}} :
           sh \in BodyShapes}

\* the blocks an argument with several environments is made of
Blocks ==
    { <<"\\", "b", "e", "g", "i", "n", "{", "b", "m", "a", "t", "r", "i", "x", "}", "1", " ", "&", " ", "2", " ", "\\", "\\", " ", "3", " ", "&", " ", "4", "\\", "e", "n", "d", "{", "b", "m", "a", "t", "r", "i", "x", "}">>,
      <<"\\", "b", "e", "g", "i", "n", "{", "b", "m", "a", "t", "r", "i", "x", "}", "5", " ", "\\", "\\", " ", "1", "1", "\\", "e", "n", "d", "{", "b", "m", "a", "t", "r", "i", "x", "}">>,
      <<"\\", "b", "e", "g", "i", "n", "{", "c", "a", "s", "e", "s", "}", " ", "1", ",", " ", "&", " ", "x", " ", "\\", "\\", " ", "0", " ", "\\", "e", "n", "d", "{", "c", "a", "s", "e", "s", "}">>,
      <<"\\", "b", "e", "g", "i", "n", "{", "a", "l", "i", "g", "n", "e", "d", "}", " ", "a", " ", "&", "=", " ", "b", " ", "\\", "e", "n", "d", "{", "a", "l", "i", "g", "n", "e", "d", "}">> }

\* the texts before the first block, between the blocks and after the last
TextsBefore == { <<>>, <<"x", " ", "&", " ", "y", " ", "\\", "\\", " ">> }

TextsBetween == { <<>>, <<" ", "=", " ">>, <<"\n">> }

TextsAfter == { <<>>, <<" ", "\\", "\\", " ", "z", " ", "&", " ", "w">> }

\* text, block, text, block, text
SeveralParts == TextsBefore \X Blocks \X TextsBetween \X Blocks \X TextsAfter

SeveralEnvInputs == {Concat(parts) : parts \in SeveralParts}

\* the example of the test: three blocks on lines of their own
MatrixVectorExample ==
    <<"A", "\\", "m", "a", "t", "h", "b", "f", "{", "x", "}", " ", "=", "\n", "\\", "b", "e", "g", "i", "n", "{", "b", "m", "a", "t", "r", "i", "x", "}", "\n", "1", " ", "&", " ", "2", " ", "\\", "\\", "\n", "3", " ", "&", " ", "4", "\n", "\\", "e", "n", "d", "{", "b", "m", "a", "t", "r", "i", "x", "}", "\n", "\\", "b", "e", "g", "i", "n", "{", "b", "m", "a", "t", "r", "i", "x", "}", "\n", "x", "_", "1", " ", "\\", "\\", " ", "x", "_", "2", "\n", "\\", "e", "n", "d", "{", "b", "m", "a", "t", "r", "i", "x", "}", "\n", "=", "\n", "\\", "b", "e", "g", "i", "n", "{", "b", "m", "a", "t", "r", "i", "x", "}", "\n", "5", " ", "\\", "\\", " ", "1", "1", "\n", "\\", "e", "n", "d", "{", "b", "m", "a", "t", "r", "i", "x", "}">>

\* the groups of a fraction under a root: without a brace
RootGroups == { <<"a">>, <<"b">>, <<"1">>, <<"x", "+", "1">>, <<" ", "a", " ">>, <<"\\", "p", "i">>, <<"a", "&", "b">> }

\* \sqrt{\frac{A}{B}}, also with \dfrac and \tfrac
SqrtFracInput(command, A, B) ==
    <<"\\", "s", "q", "r", "t", "{">> \o TwoGroupCommand(command, A, B) \o <<"}">>

SqrtFracInputs ==
    {SqrtFracInput(c, A, B) : c \in Range(FRAC_COMMANDS), A \in RootGroups, B \in RootGroups}

\* the environments nested in one another: the outer and the inner names
OuterEnvs == { <<"b", "m", "a", "t", "r", "i", "x">>, <<"c", "a", "s", "e", "s">>, <<"a", "l", "i", "g", "n", "e", "d">> }

InnerEnvs == { <<"b", "m", "a", "t", "r", "i", "x">>, <<"p", "m", "a", "t", "r", "i", "x">>, <<"a", "l", "i", "g", "n", "*">> }

\* a block in the body of a block
NestedEnvInputs ==
    {EnvInput(o, <<>>, <<" ", "a", " ", "&", " ">> \o EnvInput(i, <<>>, <<" ", "b", " ", "\\", "\\", " ", "c", " ">>) \o <<" ", "\\", "\\", " ", "d", " ">>) :
        o \in OuterEnvs, i \in InnerEnvs}

\* bodies in which the deletion of \hline joins the text around it to a
\* \begin or an \end
JoinedByHlineInputs ==
    { <<"\\", "b", "e", "g", "i", "n", "{", "b", "m", "a", "t", "r", "i", "x", "}", "\\", "b", "e", "\\", "h", "l", "i", "n", "e", "g", "i", "n", "{", "p", "m", "a", "t", "r", "i", "x", "}", "a", "\\", "e", "n", "d", "{", "p", "m", "a", "t", "r", "i", "x", "}", "\\", "e", "n", "d", "{", "b", "m", "a", "t", "r", "i", "x", "}">>,
      <<"\\", "b", "e", "g", "i", "n", "{", "b", "m", "a", "t", "r", "i", "x", "}", "a", "\\", "e", "\\", "h", "l", "i", "n", "e", "n", "d", "{", "b", "m", "a", "t", "r", "i", "x", "}", "b", "\\", "e", "n", "d", "{", "b", "m", "a", "t", "r", "i", "x", "}">>,
      <<"\\", "b", "e", "g", "i", "n", "{", "c", "a", "s", "e", "s", "}", "\\", "b", "e", "g", "i", "n", "\\", "h", "l", "i", "n", "e", "{", "b", "m", "a", "t", "r", "i", "x", "}", "a", "\\", "e", "n", "d", "{", "b", "m", "a", "t", "r", "i", "x", "}", " ", "&", " ", "x", "\\", "e", "n", "d", "{", "c", "a", "s", "e", "s", "}">> }

\* Macros that are in no table of the function: six whose names begin with
\* the name of an entry (\right, \left, \cdot, \sim, \pm, \pi), and two
\* that begin with none
UnknownMacros ==
    { <<"\\", "r", "i", "g", "h", "t", "a", "r", "r", "o", "w">>, <<"\\", "l", "e", "f", "t", "a", "r", "r", "o", "w">>, <<"\\", "c", "d", "o", "t", "s">>, <<"\\", "s", "i", "m", "e", "q">>, <<"\\", "p", "m", "o", "d">>, <<"\\", "p", "i", "t", "c", "h", "f", "o", "r", "k">>,
      <<"\\", "f", "o", "o">>, <<"\\", "s", "i", "n", "h">> }

\* such a macro alone, and between two letters
UnknownMacroInputs ==
    UNION {{ m, <<"a", " ">> \o m \o <<" ", "b">> } : m \in UnknownMacros}

\* the commands that are written without two balanced groups
BrokenCommands == { <<"\\", "f", "r", "a", "c">>, <<"\\", "d", "f", "r", "a", "c">>, <<"\\", "b", "i", "n", "o", "m">>, <<"\\", "t", "b", "i", "n", "o", "m">> }

\* What follows such a command: nothing, one group, a second group that is
\* not closed, a second argument without braces, a first group that is not
\* closed, arguments without braces, one group and an opening brace, a
\* letter before the groups
BrokenTails ==
    { <<>>, <<"{", "a", "}">>, <<"{", "a", "}", "{", "b">>, <<"{", "a", "}", "b">>, <<"{", "{", "a", "}", "{", "b", "}">>, <<" ", "a", " ", "b">>, <<"{", "a", "}", " ", "{">>, <<"x", "{", "a", "}", "{", "b", "}">> }

\* a fraction with its two groups
GoodFrac == <<"\\", "f", "r", "a", "c", "{", "c", "}", "{", "d", "}">>

\* a command without two balanced groups, alone, after a letter, and before
\* a fraction with its two groups
BrokenInputs ==
    UNION {{ c \o tl, <<"x">> \o c \o tl \o <<"y">>, c \o tl \o GoodFrac } :
              c \in BrokenCommands, tl \in BrokenTails}

\* the most characters in the content of a text macro
MaxContent == 3

\* What the content of a text macro is made of: no backslash and no brace
ContentChars == {"a", " ", "&", "$", "~", "_", "^"}

\* \m{c} or \m*{c}
TextMacroInput(m, starred, c) ==
    <<BS>> \o m \o (IF starred THEN <<"*">> ELSE <<>>) \o <<"{">> \o c \o <<"}">>

\* \text with every content of 1 to MaxContent characters, and every
\* macro, starred and not, with two contents
TextMacroInputs ==
    {TextMacroInput(<<"t", "e", "x", "t">>, FALSE, c) : c \in SeqsUpTo(ContentChars, MaxContent)}
    \cup {TextMacroInput(m, st, c) :
              m \in Range(TEXT_MACROS), st \in BOOLEAN, c \in {<<" ", "a", " ", " ", "b", " ">>, <<"x", "_", "1">>}}

PlainInputs ==
    FracInputs \cup MatrixInputs \cup AlignedInputs \cup CasesInputs
    \cup TextAmpInputs \cup PlainExamples
    \cup PlaceholderInputs \cup TextMacroInputs \cup HlineInputs
    \cup SeveralEnvInputs \cup {MatrixVectorExample}
    \cup SqrtFracInputs \cup NestedEnvInputs \cup JoinedByHlineInputs
    \cup BrokenInputs \cup UnknownMacroInputs

TextFrag == <<"\\", "t", "e", "x", "t", "{", "a", " ", "&", " ", "b", "}">>

\* the fragments an argument of the sanitizer is made of
Frags == { <<"x">>, <<"$">>, <<"%">>, <<"&", "#">>, <<BS>>, <<"\n">>, TextFrag, <<"\\", "l", "e", "f", "t", "(">> }

SaveExample == <<"S", "a", "v", "e", " ", "5", "0", "%", " ", "&", " ", "m", "o", "r", "e", " ", "#", "1">>

\* the inputs the tests and the specification name
SanExamples ==
    { SaveExample,
      <<"A", "l", "r", "e", "a", "d", "y", " ", "e", "s", "c", "a", "p", "e", "d", " ", "\\", "%", " ", "v", "a", "l", "u", "e">>,
      <<"$", "$", "\\", "t", "e", "x", "t", "{", "O", "p", "e", "r", "a", "t", "i", "n", "g", " ", "E", "x", "p", "e", "n", "s", "e", "s", "}", "$", "$">>,
      <<"\\", "[", "x", "\\", "]">> }

\* the arguments made of fragments
FragInputs == {Concat(fs) : fs \in SeqsUpTo(Frags, MaxFrags)}

\* the macros of the text block pattern, as they are written
BlockMacros == { <<"\\", "t", "e", "x", "t">>, <<"\\", "t", "e", "x", "t", "*">>, <<"\\", "o", "p", "e", "r", "a", "t", "o", "r", "n", "a", "m", "e">>, <<"\\", "o", "p", "e", "r", "a", "t", "o", "r", "n", "a", "m", "e", "*">> }

\* What the content of a text block is made of: a letter, a space, a tilde,
\* an escaped space, two reserved characters and an escaped one
BlockAtoms == { <<"a">>, <<" ">>, <<"~">>, <<"\\", " ">>, <<"&">>, <<"%">>, <<"\\", "$">> }

\* macro{content}, alone or after "x = " between $$ and $$
TextBlockInput(macro, content, display) ==
    IF display
    THEN <<"$", "$", "x", " ", "=", " ">> \o macro \o <<"{">> \o content \o <<"}", "$", "$">>
    ELSE macro \o <<"{">> \o content \o <<"}">>

\* \text with every content of 1 to MaxBlock atoms, and every macro, alone
\* and in a display, with three contents
TextBlockInputs ==
    {TextBlockInput(<<"\\", "t", "e", "x", "t">>, Concat(as), FALSE) : as \in SeqsUpTo(BlockAtoms, MaxBlock)}
    \cup {TextBlockInput(m, c, d) :
              m \in BlockMacros, c \in {<<"a", " ", "a">>, <<" ", "a", "~", "&", " ">>, <<"%", "\\", " ", "\\", "$">>}, d \in BOOLEAN}

\* the text blocks the tests name
BlockExamples ==
    { <<"$", "$", "N", "O", "I", " ", "=", " ", "\\", "t", "e", "x", "t", "{", "O", "p", "e", "r", "a", "t", "i", "n", "g", " ", "E", "x", "p", "e", "n", "s", "e", "s", "}", "$", "$">>,
      <<"$", "$", "\\", "t", "e", "x", "t", "{", "V", "a", "c", "a", "n", "c", "y", " ", "&", " ", "C", "o", "l", "l", "e", "c", "t", "i", "o", "n", "}", "$", "$">> }

SanInputs == FragInputs \cup SanExamples \cup TextBlockInputs \cup BlockExamples

(* ------------------------------------------------------------------ *)
(* The state machine: one step per statement                          *)
(* ------------------------------------------------------------------ *)

InitPlain ==
    /\ fn = "latex_to_plaintext"
    /\ input \in PlainInputs
    /\ out = input
    /\ already_math = FALSE
    /\ pc = "newlines"

InitSan ==
    /\ fn = "sanitize_for_mathtext"
    /\ input \in SanInputs
    /\ out = input
    /\ already_math = FALSE
    /\ pc = "strip"

Init == InitPlain \/ InitSan

NormalizeNewlines ==
    /\ pc = "newlines"
    /\ out' = normalize_newlines(out)
    /\ pc' = "braces"
    /\ UNCHANGED <<fn, input, already_math>>

ProtectBraces ==
    /\ pc = "braces"
    /\ out' = protect_braces(out)
    /\ pc' = "amp"
    /\ UNCHANGED <<fn, input, already_math>>

ProtectAmp ==
    /\ pc = "amp"
    /\ out' = protect_amp(out)
    /\ pc' = "math"
    /\ UNCHANGED <<fn, input, already_math>>

StripMathDelims ==
    /\ pc = "math"
    /\ out' = strip_math_delims(out)
    /\ pc' = "text"
    /\ UNCHANGED <<fn, input, already_math>>

UnwrapTextMacros ==
    /\ pc = "text"
    /\ out' = unwrap_text_macros(out)
    /\ pc' = "space"
    /\ UNCHANGED <<fn, input, already_math>>

ReplaceSpaceCmds ==
    /\ pc = "space"
    /\ out' = replace_space_cmds(out)
    /\ pc' = "envs"
    /\ UNCHANGED <<fn, input, already_math>>

\* while True: match = matrix_pattern.search(out); ...
FormatEnv ==
    /\ pc = "envs"
    /\ matrix_search(out).found
    /\ out' = env_step(out)
    /\ UNCHANGED <<fn, input, already_math, pc>>

\* if not match: break
EnvsDone ==
    /\ pc = "envs"
    /\ ~matrix_search(out).found
    /\ pc' = "rows"
    /\ UNCHANGED <<fn, input, out, already_math>>

ResidualRowsCols ==
    /\ pc = "rows"
    /\ out' = residual_rows_cols(out)
    /\ pc' = "functions"
    /\ UNCHANGED <<fn, input, already_math>>

StripFunctionBackslash ==
    /\ pc = "functions"
    /\ out' = strip_function_backslash(out)
    /\ pc' = "symbols"
    /\ UNCHANGED <<fn, input, already_math>>

ReplaceSymbols ==
    /\ pc = "symbols"
    /\ out' = replace_symbols(out)
    /\ pc' = "greek"
    /\ UNCHANGED <<fn, input, already_math>>

StripGreekBackslash ==
    /\ pc = "greek"
    /\ out' = strip_greek_backslash(out)
    /\ pc' = "roots"
    /\ UNCHANGED <<fn, input, already_math>>

RewriteRoots ==
    /\ pc = "roots"
    /\ out' = rewrite_roots(out)
    /\ pc' = "frac"
    /\ UNCHANGED <<fn, input, already_math>>

ReplaceFracLike ==
    /\ pc = "frac"
    /\ out' = replace_frac_like(out)
    /\ pc' = "binom"
    /\ UNCHANGED <<fn, input, already_math>>

ReplaceBinomials ==
    /\ pc = "binom"
    /\ out' = replace_binomials(out)
    /\ pc' = "scripts"
    /\ UNCHANGED <<fn, input, already_math>>

SimplifyScripts ==
    /\ pc = "scripts"
    /\ out' = simplify_scripts(out)
    /\ pc' = "leftright"
    /\ UNCHANGED <<fn, input, already_math>>

RemoveLeftRight ==
    /\ pc = "leftright"
    /\ out' = remove_left_right(out)
    /\ pc' = "parens"
    /\ UNCHANGED <<fn, input, already_math>>

BracesToParens ==
    /\ pc = "parens"
    /\ out' = braces_to_parens(out)
    /\ pc' = "restore"
    /\ UNCHANGED <<fn, input, already_math>>

RestorePlaceholders ==
    /\ pc = "restore"
    /\ out' = restore_placeholders(out)
    /\ pc' = "collapse"
    /\ UNCHANGED <<fn, input, already_math>>

\* the last statement and the return
CollapseAndStrip ==
    /\ pc = "collapse"
    /\ out' = collapse_and_strip(out)
    /\ pc' = "done"
    /\ UNCHANGED <<fn, input, already_math>>

NextPlain ==
    \/ NormalizeNewlines
    \/ ProtectBraces
    \/ ProtectAmp
    \/ StripMathDelims
    \/ UnwrapTextMacros
    \/ ReplaceSpaceCmds
    \/ FormatEnv
    \/ EnvsDone
    \/ ResidualRowsCols
    \/ StripFunctionBackslash
    \/ ReplaceSymbols
    \/ StripGreekBackslash
    \/ RewriteRoots
    \/ ReplaceFracLike
    \/ ReplaceBinomials
    \/ SimplifyScripts
    \/ RemoveLeftRight
    \/ BracesToParens
    \/ RestorePlaceholders
    \/ CollapseAndStrip

SanStrip ==
    /\ pc = "strip"
    /\ out' = strip(out)
    /\ pc' = "dollars"
    /\ UNCHANGED <<fn, input, already_math>>

SanUnwrapDollars ==
    /\ pc = "dollars"
    /\ out' = unwrap_display(out, <<"$", "$">>, <<"$", "$">>)
    /\ pc' = "brackets"
    /\ UNCHANGED <<fn, input, already_math>>

SanUnwrapBrackets ==
    /\ pc = "brackets"
    /\ out' = unwrap_display(out, <<BS, "[">>, <<BS, "]">>)
    /\ pc' = "flag"
    /\ UNCHANGED <<fn, input, already_math>>

SanSetFlag ==
    /\ pc = "flag"
    /\ already_math' = is_already_math(out)
    /\ pc' = "blocks"
    /\ UNCHANGED <<fn, input, out>>

SanConvertTextBlocks ==
    /\ pc = "blocks"
    /\ out' = convert_text_blocks(out)
    /\ pc' = "escape"
    /\ UNCHANGED <<fn, input, already_math>>

SanEscapeLiterals ==
    /\ pc = "escape"
    /\ out' = escape_literals(out)
    /\ pc' = "sizing"
    /\ UNCHANGED <<fn, input, already_math>>

SanRemoveLeftRight ==
    /\ pc = "sizing"
    /\ out' = remove_left_right(out)
    /\ pc' = "whitespace"
    /\ UNCHANGED <<fn, input, already_math>>

SanCollapseAndStrip ==
    /\ pc = "whitespace"
    /\ out' = collapse_and_strip(out)
    /\ pc' = "wrap"
    /\ UNCHANGED <<fn, input, already_math>>

\* the last statement and the return
SanWrap ==
    /\ pc = "wrap"
    /\ out' = wrap_math(out, already_math)
    /\ pc' = "done"
    /\ UNCHANGED <<fn, input, already_math>>

NextSan ==
    \/ SanStrip
    \/ SanUnwrapDollars
    \/ SanUnwrapBrackets
    \/ SanSetFlag
    \/ SanConvertTextBlocks
    \/ SanEscapeLiterals
    \/ SanRemoveLeftRight
    \/ SanCollapseAndStrip
    \/ SanWrap

Next == NextPlain \/ NextSan

Spec == Init /\ [][Next]_vars

\* the calls of latex_to_plaintext alone
SpecPlain == InitPlain /\ [][NextPlain]_vars

\* the arguments with environments in one another, with \hline joining
\* text, with several blocks, and with one block
LoopInputs ==
    NestedEnvInputs \cup JoinedByHlineInputs \cup MatrixInputs \cup {MatrixVectorExample}

InitLoop ==
    /\ fn = "latex_to_plaintext"
    /\ input \in LoopInputs
    /\ out = input
    /\ already_math = FALSE
    /\ pc = "newlines"

\* a turn of the loop can be taken and changes the text
FormatEnvEnabled == pc = "envs" /\ matrix_search(out).found /\ env_step(out) # out

\* the loop can be left
EnvsDoneEnabled == pc = "envs" /\ ~matrix_search(out).found

\* Weak fairness of the two branches of the loop, WF_vars(FormatEnv) and
\* WF_vars(EnvsDone), with ENABLED <<A>>_vars written as the condition under
\* which the branch is taken: the call is one thread of control that
\* executes its next statement as long as it has one.
LoopFairness ==
    /\ ([]<>~FormatEnvEnabled \/ []<><<FormatEnv>>_vars)
    /\ ([]<>~EnvsDoneEnabled \/ []<><<EnvsDone>>_vars)

\* the calls of latex_to_plaintext with these arguments, the loop run fairly
SpecLoop == InitLoop /\ [][NextPlain]_vars /\ LoopFairness

\* the calls of sanitize_for_mathtext alone
SpecSan == InitSan /\ [][NextSan]_vars

\* the function has returned `out`
Returned(f) == fn = f /\ pc = "done"

(* ------------------------------------------------------------------ *)
(* The claims                                                         *)
(* ------------------------------------------------------------------ *)

\* s is one command of `commands` with its two groups, and nothing else
IsOneCommand(s, commands) ==
    LET g == TwoGroups(s, commands, 1)
    IN g[1] /\ g[4] = Len(s) + 1

\* the two groups of such an s
GroupsOf(s, commands) ==
    LET g == TwoGroups(s, commands, 1)
    IN <<g[2], g[3]>>

\* s neither starts nor ends with white space
NoEdgeSpace(s) == strip(s) = s

\* (A')/(B') for the groups A, B of s, A' and B' being what the function
\* returns for A and for B
FracOfConversions(s) ==
    LET g == GroupsOf(s, FRAC_COMMANDS)
    IN <<"(">> \o latex_to_plaintext(g[1]) \o <<")", "/", "(">>
       \o latex_to_plaintext(g[2]) \o <<")">>

\* C(A', B') in the same way
BinomOfConversions(s) ==
    LET g == GroupsOf(s, BINOM_COMMANDS)
    IN <<"C", "(">> \o latex_to_plaintext(g[1]) \o <<",", " ">>
       \o latex_to_plaintext(g[2]) \o <<")">>

RECURSIVE ShapeRows(_, _)
ShapeRows(sh, k) ==
    IF k > Len(sh.present) THEN << <<>> >>
    ELSE LET rest == ShapeRows(sh, k + 1)
             me == IF sh.present[k] THEN <<CellName(k)>> ELSE <<>>
         IN IF k < Len(sh.present) /\ sh.breaks[k]
            THEN <<me>> \o rest
            ELSE <<me \o Head(rest)>> \o Tail(rest)

\* the rows that have a cell, each with its cells joined by cellsep, joined by "; "
RenderRows(sh, cellsep) ==
    LET rows == SelectSeq(ShapeRows(sh, 1), LAMBDA r : r # <<>>)
    IN join(<<";", " ">>, [k \in 1..Len(rows) |-> join(cellsep, rows[k])])

\* t is `inner` between one opening and one closing character
InOnePair(t, inner) ==
    /\ Len(t) = Len(inner) + 2
    /\ Slice(t, 2, Len(t) - 1) = inner

\* C3: for a matrix environment (bmatrix here) the function returns the
\* trimmed cells of each row joined by ", " and the rows joined by "; ", every
\* cell in its own row, inside one delimiter pair; rows "a & b" and "c & d"
\* give [a, b; c, d].
C3_MatrixCellsInTheirRows ==
    Returned("latex_to_plaintext") =>
        /\ \A sh \in BodyShapes :
              input = EnvInput(<<"b", "m", "a", "t", "r", "i", "x">>, <<>>, WriteBody(sh, 1))
                  => InOnePair(out, RenderRows(sh, <<",", " ">>))
        /\ input = <<"\\", "b", "e", "g", "i", "n", "{", "b", "m", "a", "t", "r", "i", "x", "}", " ", "a", " ", "&", " ", "b", " ", "\\", "\\", " ", "c", " ", "&", " ", "d", " ", "\\", "e", "n", "d", "{", "b", "m", "a", "t", "r", "i", "x", "}">>
              => out = <<"[", "a", ",", " ", "b", ";", " ", "c", ",", " ", "d", "]">>

\* C4: the text returned for a matrix environment starts and ends with the
\* delimiter pair configured for its variant (matrix_delims).
C4_ConfiguredDelimiters ==
    Returned("latex_to_plaintext") =>
        \A env \in EnvsOfKind("matrix"), sh \in FullRowShapes :
            input = EnvInput(env, ColSpecOf(env), WriteBody(sh, 1))
                => /\ out[1] = delims_of(env)[1]
                   /\ out[Len(out)] = delims_of(env)[2]

\* the rendering of a row of a cases environment
CaseRowText(r) ==
    IF r.cond = <<>> THEN r.value
    ELSE IF r.otherwise THEN r.value \o <<" ">> \o r.cond
    ELSE r.value \o <<" ", "i", "f", " ">> \o r.cond

\* the renderings of rows joined by "; ", in parentheses
CasesText(rows) ==
    <<"(">> \o join(<<";", " ">>, [k \in 1..Len(rows) |-> CaseRowText(rows[k])]) \o <<")">>

C6_AlignedRows ==
    Returned("latex_to_plaintext") =>
        /\ \A sh \in BodyShapes :
              input = EnvInput(<<"a", "l", "i", "g", "n", "*">>, <<>>, WriteBody(sh, 1))
                  => out = RenderRows(sh, <<" ">>)
        /\ \A env \in EnvsOfKind("aligned"), sh \in FullRowShapes :
              input = EnvInput(env, <<>>, WriteBody(sh, 1))
                  => out = RenderRows(sh, <<" ">>)
        /\ input = <<"\\", "b", "e", "g", "i", "n", "{", "a", "l", "i", "g", "n", "*", "}", " ", "a", " ", "&", "=", " ", "b", " ", "+", " ", "c", " ", "\\", "\\", " ", "d", " ", "&", "=", " ", "e", " ", "-", " ", "f", " ", "\\", "e", "n", "d", "{", "a", "l", "i", "g", "n", "*", "}">>
              => out = <<"a", " ", "=", " ", "b", " ", "+", " ", "c", ";", " ", "d", " ", "=", " ", "e", " ", "-", " ", "f">>

\* C7: the ampersand of a text block, escaped or not, is in the returned
\* text as the literal & of that text ("a & b"), wherever the block stands.
C7_TextAmpersandKept ==
    (Returned("latex_to_plaintext") /\ input \in TextAmpInputs)
        => Find(out, <<"a", " ", "&", " ", "b">>, 1) # 0

\* s is one $...$ span: a $ at each end and none between
IsDollarSpan(s) ==
    /\ Len(s) >= 2
    /\ s[1] = "$"
    /\ s[Len(s)] = "$"
    /\ \A j \in 2..(Len(s) - 1) : s[j] # "$"

\* C8: when the argument of the sanitizer is one $...$ span, the returned
\* text starts with one unescaped $, ends with one unescaped $ and has no
\* other $.
C8_StaysSingleWrapped ==
    (Returned("sanitize_for_mathtext") /\ IsDollarSpan(input)) =>
        /\ IsDollarSpan(out)
        /\ out[Len(out) - 1] # BS

\* s has a line break
HasLineBreak(s) == \E j \in 1..Len(s) : s[j] = "\n"

\* C9: the sanitizer puts its result in $...$ exactly when the text was not
\* delimited after step 1 and has no line break inside; the result starts
\* with a $ only when it was put in $...$, every other $ being escaped.
C9_WrapsIffSingleLine ==
    Returned("sanitize_for_mathtext") =>
        ((out # <<>> /\ out[1] = "$")
            <=> (~already_math /\ ~HasLineBreak(strip(input))))

\* the fragments s is made of, from position i on: the longest one first
RECURSIVE FragsFrom(_, _)
FragsFrom(s, i) ==
    IF i > Len(s) THEN <<>>
    ELSE LET f == CHOOSE f \in Frags :
                      /\ StartsWith(s, f, i)
                      /\ \A g \in Frags : StartsWith(s, g, i) => Len(g) <= Len(f)
         IN <<f>> \o FragsFrom(s, i + Len(f))

\* a backslash stands before fragment k
AfterBackslash(fs, k) == k > 1 /\ fs[k - 1] = <<BS>>

\* Fragment k as the claim has it returned: a reserved character gets one
\* backslash unless one stands before it, the text block becomes \mathrm
\* with its ampersand escaped once, \left goes, the rest stays.
EscapedOnce(fs, k) ==
    IF fs[k] = <<"%">> THEN (IF AfterBackslash(fs, k) THEN <<"%">> ELSE <<"\\", "%">>)
    ELSE IF fs[k] = <<"$">> THEN (IF AfterBackslash(fs, k) THEN <<"$">> ELSE <<"\\", "$">>)
    ELSE IF fs[k] = <<"&", "#">> THEN (IF AfterBackslash(fs, k) THEN <<"&", "\\", "#">> ELSE <<"\\", "&", "\\", "#">>)
    ELSE IF fs[k] = TextFrag THEN <<"\\", "m", "a", "t", "h", "r", "m", "{", "a", "\\", " ", "\\", "&", "\\", " ", "b", "}">>
    ELSE IF fs[k] = <<"\\", "l", "e", "f", "t", "(">> THEN <<"(">>
    ELSE fs[k]

\* step 1 takes a pair of display delimiters off s
DisplayWrapped(s) ==
    \/ StartsWith(s, <<"$", "$">>, 1) /\ EndsWith(s, <<"$", "$">>)
    \/ StartsWith(s, <<BS, "[">>, 1) /\ EndsWith(s, <<BS, "]">>)

\* C10: the sanitizer gives every %, &, # and $ that no backslash precedes
\* exactly one backslash and leaves an escaped one as it is, in a text block
\* too: the returned text is the fragments so escaped, white space collapsed,
\* in $...$ unless the text was delimited; "Save 50% & more #1" gives
\* "$Save 50\% \& more \#1$".
C10_EscapedExactlyOnce ==
    Returned("sanitize_for_mathtext") =>
        /\ (input \in FragInputs /\ ~DisplayWrapped(strip(input))) =>
              LET fs == FragsFrom(input, 1)
                  body == collapse_and_strip(
                              Concat([k \in 1..Len(fs) |-> EscapedOnce(fs, k)]))
              IN out = IF already_math THEN body ELSE <<"$">> \o body \o <<"$">>
        /\ input = SaveExample => out = <<"$", "S", "a", "v", "e", " ", "5", "0", "\\", "%", " ", "\\", "&", " ", "m", "o", "r", "e", " ", "\\", "#", "1", "$">>
        /\ input = <<"A", "l", "r", "e", "a", "d", "y", " ", "e", "s", "c", "a", "p", "e", "d", " ", "\\", "%", " ", "v", "a", "l", "u", "e">> => out = <<"$", "A", "l", "r", "e", "a", "d", "y", " ", "e", "s", "c", "a", "p", "e", "d", " ", "\\", "%", " ", "v", "a", "l", "u", "e", "$">>

\* reserved characters, one of them escaped in the argument, have been escaped
C10_ReservedEscaped ==
    /\ Returned("sanitize_for_mathtext")
    /\ input = <<"%", "\\", "&", "#">>
    /\ out = <<"$", "\\", "%", "\\", "&", "\\", "#", "$">>

\* the atoms a content is made of, from position i on: the longest one first
RECURSIVE AtomsFrom(_, _)
AtomsFrom(s, i) ==
    IF i > Len(s) THEN <<>>
    ELSE LET f == CHOOSE f \in BlockAtoms :
                      /\ StartsWith(s, f, i)
                      /\ \A g \in BlockAtoms : StartsWith(s, g, i) => Len(g) <= Len(f)
         IN <<f>> \o AtomsFrom(s, i + Len(f))

\* the atom is read as a space
ReadAsSpace(atom) == atom \in { <<" ">>, <<"~">>, <<"\\", " ">> }

\* The atoms with every run of atoms read as a space made one space, from
\* atom k on; `first` tells that no atom has been kept yet (a leading run goes)
RECURSIVE RunsCollapsed(_, _, _)
RunsCollapsed(as, k, first) ==
    IF k > Len(as) THEN <<>>
    ELSE IF ~ReadAsSpace(as[k]) THEN <<as[k]>> \o RunsCollapsed(as, k + 1, FALSE)
    ELSE IF first \/ \A j \in k..Len(as) : ReadAsSpace(as[j]) THEN RunsCollapsed(as, k + 1, first)
    ELSE IF ReadAsSpace(as[k - 1]) THEN RunsCollapsed(as, k + 1, first)
    ELSE << <<" ">> >> \o RunsCollapsed(as, k + 1, first)

\* an atom of the collapsed content as the claim has it in \mathrm{...}
AtomInMathrm(atom) ==
    IF atom = <<" ">> THEN <<"\\", " ">>
    ELSE IF atom = <<"&">> THEN <<"\\", "&">>
    ELSE IF atom = <<"%">> THEN <<"\\", "%">>
    ELSE atom

\* \mathrm{...} for a content, as the claim has it
MathrmOf(content) ==
    LET as == RunsCollapsed(AtomsFrom(content, 1), 1, TRUE)
    IN <<"\\", "m", "a", "t", "h", "r", "m", "{">> \o Concat([k \in 1..Len(as) |-> AtomInMathrm(as[k])]) \o <<"}">>

\* the content of the one text block of s: between the first { and the last }
BlockContentOf(s) ==
    Slice(s, FindChar(s, "{", 1) + 1,
          Max({j \in 1..Len(s) : s[j] = "}"}) - 1)

\* C11: the sanitizer turns a \text{...} or \operatorname{...} block,
\* starred or not, into \mathrm{...} whose content has escaped spaces and ~
\* read as spaces, runs of white space made one space and the ends trimmed,
\* an unescaped %, &, #, $ given a backslash, and then every space written
\* "\ "; these escaped spaces are in the returned text.
\* "$$NOI = \text{Operating Expenses}$$" gives
\* "$NOI = \mathrm{Operating\ Expenses}$" and "$$\text{Vacancy & Collection}$$"
\* gives "$\mathrm{Vacancy\ \&\ Collection}$".
C11_TextBlocksToMathrm ==
    Returned("sanitize_for_mathtext") =>
        /\ input \in TextBlockInputs =>
              out = <<"$">>
                    \o (IF StartsWith(input, <<"$">>, 1) THEN <<"x", " ", "=", " ">> ELSE <<>>)
                    \o MathrmOf(BlockContentOf(input)) \o <<"$">>
        /\ input = <<"$", "$", "N", "O", "I", " ", "=", " ", "\\", "t", "e", "x", "t", "{", "O", "p", "e", "r", "a", "t", "i", "n", "g", " ", "E", "x", "p", "e", "n", "s", "e", "s", "}", "$", "$">>
              => out = <<"$", "N", "O", "I", " ", "=", " ", "\\", "m", "a", "t", "h", "r", "m", "{", "O", "p", "e", "r", "a", "t", "i", "n", "g", "\\", " ", "E", "x", "p", "e", "n", "s", "e", "s", "}", "$">>
        /\ input = <<"$", "$", "\\", "t", "e", "x", "t", "{", "V", "a", "c", "a", "n", "c", "y", " ", "&", " ", "C", "o", "l", "l", "e", "c", "t", "i", "o", "n", "}", "$", "$">>
              => out = <<"$", "\\", "m", "a", "t", "h", "r", "m", "{", "V", "a", "c", "a", "n", "c", "y", "\\", " ", "\\", "&", "\\", " ", "C", "o", "l", "l", "e", "c", "t", "i", "o", "n", "}", "$">>

\* a text block with an ampersand between spaces has been converted
C11_VacancyConverted ==
    /\ Returned("sanitize_for_mathtext")
    /\ input = <<"$", "$", "\\", "t", "e", "x", "t", "{", "V", "a", "c", "a", "n", "c", "y", " ", "&", " ", "C", "o", "l", "l", "e", "c", "t", "i", "o", "n", "}", "$", "$">>
    /\ out = <<"$", "\\", "m", "a", "t", "h", "r", "m", "{", "V", "a", "c", "a", "n", "c", "y", "\\", " ", "\\", "&", "\\", " ", "C", "o", "l", "l", "e", "c", "t", "i", "o", "n", "}", "$">>

\* the words a placeholder token is made of, between its underscores
PlaceholderPieces ==
    { <<"L", "A", "C", "E">>, <<"R", "A", "C", "E">>, <<"B", "R", "A", "C", "E">>, <<"L", "A", "T", "E", "X", "C", "L", "I", "P">>, <<"E", "S", "C">>, <<"A", "M", "P">> }

\* s has a placeholder token or a piece of one
HasPlaceholderText(s) ==
    \E piece \in PlaceholderPieces : Find(s, piece, 1) # 0

\* how often p occurs in s
Occurrences(s, p) == Cardinality({j \in 1..Len(s) : StartsWith(s, p, j)})

\* C12: the placeholders put for \{, \} and \& are put back before the
\* function returns: for an argument without placeholder text, the returned
\* text has no placeholder token and no piece of one, whatever follows the
\* escaped character (a group, a subscript, a superscript), and it has one
\* {, } and & for each \{, \} and \& of the argument.
C12_PlaceholdersRestored ==
    (Returned("latex_to_plaintext") /\ ~HasPlaceholderText(input)) =>
        /\ ~HasPlaceholderText(out)
        /\ Occurrences(out, <<"{">>) = Occurrences(input, <<"\\", "{">>)
        /\ Occurrences(out, <<"}">>) = Occurrences(input, <<"\\", "}">>)
        /\ input \in PlaceholderInputs =>
              Occurrences(out, <<"&">>) = Occurrences(input, <<"\\", "&">>)

\* an escaped ampersand with a group directly after it has been restored
C12_AmpersandBeforeGroup ==
    /\ Returned("latex_to_plaintext")
    /\ input = <<"\\", "&", "{", "a", "}">>
    /\ out = <<"&", "a">>

\* s is \m{c} or \m*{c} for a text macro m and a content c without a brace
IsTextMacroCall(s) ==
    LET g == MacroGroupAt(s, TEXT_MACROS, 1)
    IN /\ g[1] # 0
       /\ g[2] = Len(s)
       /\ \A j \in (g[1] + 1)..(g[2] - 1) : s[j] \notin {BS, "{", "}"}

\* the content of such an s
ContentOf(s) ==
    LET g == MacroGroupAt(s, TEXT_MACROS, 1)
    IN Slice(s, g[1] + 1, g[2] - 1)

\* c with every run of white space made one space and the ends trimmed
Normalized(c) == strip(collapse_ws(c))

\* C13, as stated: for every text macro m, starred or not, and every
\* content c without a macro and without a brace, the function returns for
\* m{c} the content c with runs of white space made one space and the ends
\* trimmed, and nothing else changed.
C13_ContentNormalized ==
    (Returned("latex_to_plaintext") /\ IsTextMacroCall(input))
        => out = Normalized(ContentOf(input))

\* C13, amended: the same for the contents that also have no $, & and ~,
\* which the other stages rewrite ($...$ loses its delimiters, ~ becomes a
\* space, & gets one space on each side).
C13_PlainContentNormalized ==
    (/\ Returned("latex_to_plaintext")
     /\ IsTextMacroCall(input)
     /\ \A j \in 1..Len(ContentOf(input)) : ContentOf(input)[j] \notin {"$", "&", "~"})
        => out = Normalized(ContentOf(input))

\* a starred math variant with white space to collapse and trim has been unwrapped
C13_StarredMathttUnwrapped ==
    /\ Returned("latex_to_plaintext")
    /\ input = <<"\\", "m", "a", "t", "h", "t", "t", "*", "{", " ", "a", " ", " ", "b", " ", "}">>
    /\ out = <<"a", " ", "b">>

\* s with its \hline markers deleted
WithoutHline(s) == replace(s, Hline, <<>>)

\* C14: \hline markers in the body of a matrix environment do not change
\* what the function returns: the text returned is the one returned for the
\* body without the markers; array{cc} with "\hline a & b \\ \hline c & d"
\* gives "[a, b; c, d]".
C14_HlineNoEffect ==
    Returned("latex_to_plaintext") =>
        /\ input \in HlineInputs => out = latex_to_plaintext(WithoutHline(input))
        /\ input = <<"\\", "b", "e", "g", "i", "n", "{", "a", "r", "r", "a", "y", "}", "{", "c", "c", "}", " ", "\\", "h", "l", "i", "n", "e", " ", "a", " ", "&", " ", "b", " ", "\\", "\\", " ", "\\", "h", "l", "i", "n", "e", " ", "c", " ", "&", " ", "d", " ", "\\", "e", "n", "d", "{", "a", "r", "r", "a", "y", "}">>
              => out = <<"[", "a", ",", " ", "b", ";", " ", "c", ",", " ", "d", "]">>

\* s as it is when the environment loop starts
BeforeEnvs(s) == plaintext_stages(s)[6]

\* a block formatted on its own
FormattedAlone(block) == env_step(BeforeEnvs(block))

\* The texts the loop can hold for text, block, text, block, text: no
\* block formatted yet, the first one formatted, both formatted
LoopTexts(parts) ==
    LET t0 == BeforeEnvs(parts[1])
        t1 == BeforeEnvs(parts[3])
        t2 == BeforeEnvs(parts[5])
        b1 == BeforeEnvs(parts[2])
        b2 == BeforeEnvs(parts[4])
        f1 == FormattedAlone(parts[2])
        f2 == FormattedAlone(parts[4])
    IN << t0 \o b1 \o t1 \o b2 \o t2,
          t0 \o f1 \o t1 \o b2 \o t2,
          t0 \o f1 \o t1 \o f2 \o t2 >>

\* C15: when the argument holds several environments one after another,
\* the loop formats each block on its own, the leftmost first, each \begin
\* with the nearest following \end of its name, and leaves the text before,
\* between and after the blocks as it was; "A\mathbf{x} =" and three
\* bmatrix blocks give "Ax = [1, 2; 3, 4] [x_1; x_2] = [5; 11]".
C15_BlocksFormattedInOrder ==
    /\ (fn = "latex_to_plaintext" /\ pc \in {"envs", "rows"}) =>
          \A parts \in SeveralParts :
              input = Concat(parts) =>
                  IF pc = "envs"
                  THEN out \in Range(LoopTexts(parts))
                  ELSE out = LoopTexts(parts)[3]
    /\ (Returned("latex_to_plaintext") /\ input = MatrixVectorExample)
          => out = <<"A", "x", " ", "=", " ", "[", "1", ",", " ", "2", ";", " ", "3", ",", " ", "4", "]", " ", "[", "x", "_", "1", ";", " ", "x", "_", "2", "]", " ", "=", " ", "[", "5", ";", " ", "1", "1", "]">>

\* the loop has ended with two blocks formatted and the text around them kept
C15_TwoBlocksFormatted ==
    /\ fn = "latex_to_plaintext"
    /\ pc = "rows"
    /\ input = <<"x", " ", "&", " ", "y", " ", "\\", "\\", " ", "\\", "b", "e", "g", "i", "n", "{", "b", "m", "a", "t", "r", "i", "x", "}", "1", " ", "&", " ", "2", " ", "\\", "\\", " ", "3", " ", "&", " ", "4", "\\", "e", "n", "d", "{", "b", "m", "a", "t", "r", "i", "x", "}", " ", "=", " ", "\\", "b", "e", "g", "i", "n", "{", "b", "m", "a", "t", "r", "i", "x", "}", "5", " ", "\\", "\\", " ", "1", "1", "\\", "e", "n", "d", "{", "b", "m", "a", "t", "r", "i", "x", "}", " ", "\\", "\\", " ", "z", " ", "&", " ", "w">>
    /\ out = <<"x", " ", "&", " ", "y", " ", "\\", "\\", " ", "[", "1", ",", " ", "2", ";", " ", "3", ",", " ", "4", "]", " ", "=", " ", "[", "5", ";", " ", "1", "1", "]", " ", "\\", "\\", " ", "z", " ", "&", " ", "w">>

\* sqrt(\frac(a)(b)) for the command and the texts a and b in its groups
SqrtOfFrac(command, a, b) ==
    <<"s", "q", "r", "t", "(">> \o command \o <<"(">> \o a \o <<")", "(">> \o b \o <<")", ")">>

\* A group as the stages leave it where it stands: what the function makes
\* of it before the last statement, with runs of white space made one space
\* and the ends not trimmed
InPlace(group) == collapse_ws(plaintext_stages(group)[18])

\* C16, as stated: the roots are rewritten before the fractions and the
\* radicand ends at the first closing brace, so for \sqrt{\frac{A}{B}} with
\* A and B without a brace the function returns sqrt(\frac(A)(B)).
C16_SqrtOfFracLiteral ==
    Returned("latex_to_plaintext") =>
        \A c \in Range(FRAC_COMMANDS), A \in RootGroups, B \in RootGroups :
            input = SqrtFracInput(c, A, B) => out = SqrtOfFrac(c, A, B)

\* C16, amended: the function returns sqrt(\frac(A*)(B*)), A* and B* being
\* A and B as the other stages rewrite them where they stand (\pi becomes
\* pi, & gets a space on each side); the fraction is never rewritten to
\* (A)/(B).
C16_SqrtOfFracInPlace ==
    Returned("latex_to_plaintext") =>
        \A c \in Range(FRAC_COMMANDS), A \in RootGroups, B \in RootGroups :
            input = SqrtFracInput(c, A, B) =>
                /\ out = SqrtOfFrac(c, InPlace(A), InPlace(B))
                /\ Find(out, <<")", "/", "(">>, 1) = 0

\* the root of a fraction has been rewritten and the fraction left
C16_SqrtFracKept ==
    /\ Returned("latex_to_plaintext")
    /\ input = <<"\\", "s", "q", "r", "t", "{", "\\", "f", "r", "a", "c", "{", "a", "}", "{", "b", "}", "}">>
    /\ out = <<"s", "q", "r", "t", "(", "\\", "f", "r", "a", "c", "(", "a", ")", "(", "b", ")", ")">>

\* s has \begin{ENV} for an environment of the table
HasRecognizedBegin(s) ==
    \E j \in 1..Len(s), k \in 1..Len(structured_envs) :
        StartsWith(s, BeginTag \o structured_envs[k][1] \o <<"}">>, j)

\* the text that the next turn of the loop puts for the first block of s
ReplacementIn(s) == format_matrix(matrix_search(s).env, matrix_search(s).body)

\* the backslashes of s
Backslashes(s) == Cardinality({j \in 1..Len(s) : s[j] = BS})

\* C17, as stated: the text that replaces a block never has a recognized
\* \begin{ENV}, also when the body holds another environment or an \hline
\* whose deletion joins the text around it.
C17_ReplacementHasNoBegin ==
    (fn = "latex_to_plaintext" /\ pc = "envs" /\ matrix_search(out).found)
        => ~HasRecognizedBegin(ReplacementIn(out))

\* C17, amended: the environment loop ends for every argument; each turn
\* takes at least the backslashes of one \begin and one \end out of the
\* text and adds none, although the text put for a block can hold a
\* recognized \begin{ENV}.
C17_LoopTerminates ==
    /\ [][FormatEnv => Backslashes(out') + 2 <= Backslashes(out)]_vars
    /\ (fn = "latex_to_plaintext" /\ pc = "envs") ~> (pc = "rows")

\* the loop has ended after it formatted a block whose body held another block
C17_NestedBlocksFormatted ==
    /\ fn = "latex_to_plaintext"
    /\ pc = "rows"
    /\ input = <<"\\", "b", "e", "g", "i", "n", "{", "b", "m", "a", "t", "r", "i", "x", "}", " ", "a", " ", "&", " ", "\\", "b", "e", "g", "i", "n", "{", "p", "m", "a", "t", "r", "i", "x", "}", " ", "b", " ", "\\", "\\", " ", "c", " ", "\\", "e", "n", "d", "{", "p", "m", "a", "t", "r", "i", "x", "}", " ", "\\", "\\", " ", "d", " ", "\\", "e", "n", "d", "{", "b", "m", "a", "t", "r", "i", "x", "}">>
    /\ out = <<"[", "a", ",", " ", "(", "b", ";", " ", "c", ")", ";", " ", "d", "]">>

\* the opening braces less the closing braces of s from a to b
Depth(s, a, b) ==
    Cardinality({j \in a..b : s[j] = "{"}) - Cardinality({j \in a..b : s[j] = "}"})

\* The position after the balanced group that starts at a (after white
\* space), or 0 when there is none: no opening brace there, or the end of
\* the string before the depth is back at zero
AfterGroup(s, a) ==
    LET o == skip_ws(s, a)
        es == {e \in o..Len(s) : Depth(s, o, e) = 0}
    IN IF o > Len(s) THEN 0
       ELSE IF s[o] # "{" THEN 0
       ELSE IF es = {} THEN 0
       ELSE Min(es) + 1

\* a command of `commands` stands in s with two balanced groups after it
HasCompleteCommand(s, commands) ==
    \E j \in 1..Len(s), k \in 1..Len(commands) :
        /\ StartsWith(s, commands[k], j)
        /\ AfterGroup(s, j + Len(commands[k])) # 0
        /\ AfterGroup(s, AfterGroup(s, j + Len(commands[k]))) # 0

\* C18: where a \frac or \binom command (or a d/t variant) is not
\* followed by two balanced groups, nothing is rewritten and no character is
\* dropped, doubled or moved: the fraction stage and the binomial stage
\* return a text without a complete command as it is, and a fraction with
\* its two groups after such a command is rewritten while the command and
\* what follows it stay as written.
C18_BrokenCommandsPassThrough ==
    [][/\ (ReplaceFracLike /\ ~HasCompleteCommand(out, FRAC_COMMANDS)) => out' = out
       /\ (ReplaceBinomials /\ ~HasCompleteCommand(out, BINOM_COMMANDS)) => out' = out
       /\ ReplaceFracLike =>
             \A c \in BrokenCommands, tl \in BrokenTails :
                 out = c \o tl \o GoodFrac => out' = c \o tl \o <<"(", "c", ")", "/", "(", "d", ")">>]_vars

\* the fraction stage has left a fraction whose second group is not closed
C18_UnclosedGroupKept ==
    /\ fn = "latex_to_plaintext"
    /\ pc = "binom"
    /\ input = <<"\\", "f", "r", "a", "c", "{", "a", "}", "{", "b">>
    /\ out = <<"\\", "f", "r", "a", "c", "{", "a", "}", "{", "b">>

\* C19: a macro that is in none of the tables is left as literal
\* backslash-text, also when its name begins with the name of a table entry
\* (\rightarrow, \leftarrow, \cdots, \simeq, \pmod, \pitchfork): the text
\* returned for such a macro, alone or between two letters, is the argument.
C19_UnknownMacroKept ==
    Returned("latex_to_plaintext") =>
        (input \in UnknownMacroInputs => out = input)

\* the text between the two delimiters of a formatted matrix
InnerOf(t) == Slice(t, 2, Len(t) - 1)

\* The rows of a formatted matrix, joined by "; ", have no empty entry: no
\* two separators with nothing between them, no empty first or last row
NoEmptyRowEntry(inner) ==
    /\ Occurrences(inner, <<";", " ", ";", " ">>) = 0
    /\ ~StartsWith(inner, <<";", " ">>, 1)
    /\ ~(Len(inner) >= 2 /\ StartsWith(inner, <<";", " ">>, Len(inner) - 1))

\* C20: a row that is empty after trimming is skipped and not emitted,
\* also a row that holds only & separators and white space: the text that
\* format_matrix puts for a matrix block has no empty row entry.
C20_NoEmptyRowEmitted ==
    (/\ fn = "latex_to_plaintext"
     /\ pc = "envs"
     /\ input \in MatrixInputs
     /\ matrix_search(out).found)
        => NoEmptyRowEntry(InnerOf(ReplacementIn(out)))

=============================================================================
